---- MODULE Spec2Model ----
(***************************************************************************)
(* A model of the statistics calculator: the four calculator classes       *)
(* (DescriptiveStats, NormalDistribution, ConfidenceIntervals,             *)
(* HypothesisTesting), the web routes of api/routes/stats_routes.py and    *)
(* the console front end of main.py / utils/input_helpers.py.              *)
(*                                                                         *)
(* Numbers.  A Python float is a record [k, v]:                            *)
(*   k = "num"  a finite value, v in thousandths (probabilities, that is   *)
(*              alpha, confidence levels, CDF values and p-values, carry   *)
(*              six decimals: v in millionths);                            *)
(*   k = "nan"  not-a-number;  k = "inf"  an infinity of sign v;           *)
(*   k = "none" Python's None for an Optional[float] argument.             *)
(* A z or t score that is looked up in a distribution is carried to one    *)
(* decimal place, the grid on which the tables below hold the values of    *)
(* scipy.stats.norm / scipy.stats.t.                                       *)
(***************************************************************************)
EXTENDS Integers, Sequences, FiniteSets, TLC

VARIABLES
    call,        \* the last calculator call: who made it, which method, its arguments
    outcome,     \* what that call did: the exception raised or the result mapping returned
    response,    \* the web route's answer to the last request (status, body)
    norm_dist,   \* the NormalDistribution instance a library client holds, if any
    stats_calc,  \* the DescriptiveStats instance a library client holds, if any
    other,       \* the call a second caller made on those instances meanwhile
    decimal_places,  \* StatisticsCalculator.decimal_places of the console application
    menu         \* where main_menu stands: the screen, the last choice, the last setting entered

vars == <<call, outcome, response, norm_dist, stats_calc, other, decimal_places, menu>>

(***************************************************************************)
(* Floats                                                                  *)
(***************************************************************************)
F(v) == [k |-> "num", v |-> v]

NaN == [k |-> "nan", v |-> 0]

PosInf == [k |-> "inf", v |-> 1]

NegInf == [k |-> "inf", v |-> -1]

None == [k |-> "none", v |-> 0]

IsNone(a) == a.k = "none"

IsNaN(a) == a.k = "nan"

IsNum(a) == a.k = "num"

Sign(v) == IF v > 0 THEN 1 ELSE IF v < 0 THEN -1 ELSE 0

Abs(v) == IF v < 0 THEN -v ELSE v

\* Integer quotient rounded toward zero (b # 0).
Trunc(a, b) == Sign(a) * Sign(b) * (Abs(a) \div Abs(b))

\* Position of a float on the extended real line: infinities first by sign.
Rank(a) == IF a.k = "inf" THEN a.v ELSE 0

FLt(a, b) ==
    /\ ~IsNaN(a)
    /\ ~IsNaN(b)
    /\ \/ Rank(a) < Rank(b)
       \/ Rank(a) = Rank(b) /\ IsNum(a) /\ IsNum(b) /\ a.v < b.v

FGt(a, b) == FLt(b, a)

FEq(a, b) == ~IsNaN(a) /\ ~IsNaN(b) /\ a = b

FLe(a, b) == FLt(a, b) \/ FEq(a, b)

FGe(a, b) == FLe(b, a)

FNeg(a) == IF IsNaN(a) THEN NaN ELSE [k |-> a.k, v |-> -a.v]

FAbs(a) == IF IsNaN(a) THEN NaN ELSE [k |-> a.k, v |-> Abs(a.v)]

FAdd(a, b) ==
    IF IsNaN(a) \/ IsNaN(b) THEN NaN
    ELSE IF a.k = "inf" THEN (IF b.k = "inf" /\ b.v # a.v THEN NaN ELSE a)
    ELSE IF b.k = "inf" THEN b
    ELSE F(a.v + b.v)

FSub(a, b) == FAdd(a, FNeg(b))

\* a * b / d for a, b >= 0, without forming a * b.
MulDiv(a, b, d) == (a \div d) * b + ((a % d) * b) \div d

\* Product of two values in thousandths.
FMul(a, b) ==
    IF IsNaN(a) \/ IsNaN(b) THEN NaN
    ELSE IF a.k = "inf" \/ b.k = "inf"
         THEN (IF Sign(a.v) * Sign(b.v) = 0 THEN NaN
               ELSE [k |-> "inf", v |-> Sign(a.v) * Sign(b.v)])
    ELSE F(Sign(a.v) * Sign(b.v) * MulDiv(Abs(a.v), Abs(b.v), 1000))

\* Product of a float with a Python int.
FTimes(n, a) ==
    IF IsNaN(a) THEN NaN
    ELSE IF a.k = "inf"
         THEN (IF n = 0 THEN NaN ELSE [k |-> "inf", v |-> Sign(n) * a.v])
    ELSE F(n * a.v)

\* Quotient of two values in thousandths; the caller has excluded b = 0.0,
\* on which Python raises ZeroDivisionError.
FDiv(a, b) ==
    IF IsNaN(a) \/ IsNaN(b) THEN NaN
    ELSE IF a.k = "inf"
         THEN (IF b.k = "inf" THEN NaN
               ELSE [k |-> "inf", v |-> a.v * Sign(b.v)])
    ELSE IF b.k = "inf" THEN F(0)
    ELSE F(Trunc(a.v * 1000, b.v))

\* Quotient of a float by a nonzero Python int.
FOver(a, n) ==
    IF IsNaN(a) THEN NaN
    ELSE IF a.k = "inf" THEN [k |-> "inf", v |-> a.v * Sign(n)]
    ELSE F(Trunc(a.v, n))

IsZero(a) == IsNum(a) /\ a.v = 0

RECURSIVE IsqrtIn(_, _, _)
IsqrtIn(x, lo, hi) ==
    IF lo >= hi THEN lo
    ELSE LET mid == (lo + hi + 1) \div 2
         IN  IF mid * mid <= x THEN IsqrtIn(x, mid, hi)
             ELSE IsqrtIn(x, lo, mid - 1)

\* Largest r with r * r <= x, for 0 <= x < 2^31.
Isqrt(x) == IsqrtIn(x, 0, 46340)

\* math.sqrt on a value the caller has found to be >= 0 (math.sqrt raises
\* ValueError below zero).
FSqrt(a) ==
    IF IsNaN(a) THEN NaN
    ELSE IF a.k = "inf" THEN a
    ELSE F(Isqrt(a.v * 1000))

\* math.sqrt of a Python int n >= 0.
SqrtInt(n) == F(Isqrt(n * 1000000))

\* Python's max(a, b) and min(a, b): the first argument unless the second
\* compares beyond it (so a NaN second argument is dropped).
PyMax(a, b) == IF FGt(b, a) THEN b ELSE a

PyMin(a, b) == IF FLt(b, a) THEN b ELSE a

\* A score carried to one decimal place.
Tenths(a) == IF IsNum(a) THEN F(Trunc(a.v, 100) * 100) ELSE a

(***************************************************************************)
(* Exact ratios of integers, for the variances                             *)
(***************************************************************************)
RECURSIVE GCD(_, _)
GCD(a, b) == IF b = 0 THEN a ELSE GCD(b, a % b)

\* The greatest common divisor of the absolute values of a sequence.
RECURSIVE GCDOf(_)
GCDOf(xs) == IF xs = << >> THEN 0 ELSE GCD(Abs(Head(xs)), GCDOf(Tail(xs)))

\* num / den in lowest terms (den > 0).
Ratio(num, den) ==
    LET g == GCD(Abs(num), den)
    IN  [k |-> "ratio", num |-> num \div g, den |-> den \div g]

\* A ratio times a Python int m >= 0.
RatioTimes(r, m) ==
    IF r.k # "ratio" THEN NaN
    ELSE LET g == GCD(m, r.den)
         IN  Ratio(r.num * (m \div g), r.den \div g)

\* The ratio as a float in thousandths; its square root likewise.
RatioValue(r) == IF r.k # "ratio" THEN r ELSE F(Trunc(r.num, r.den * 1000))

RatioRoot(r) == IF r.k # "ratio" THEN r ELSE F(Isqrt(r.num \div r.den))

(***************************************************************************)
(* scipy.stats.norm and scipy.stats.t.  The tables hold the library's      *)
(* values: CDF values in millionths at 0.0, 0.1, 0.2, ... and quantiles in *)
(* thousandths at the probabilities of ProbKeys (millionths).  Degrees of  *)
(* freedom are in thousandths (Welch's test gives fractional ones).        *)
(***************************************************************************)
ProbKeys ==
    << 500000, 750000, 800000, 900000, 950000, 975000, 990000, 995000 >>

NormCdfTable ==
  <<
    500000, 539828, 579260, 617911, 655422, 691462, 725747, 758036, 788145, 815940,
    841345, 864334, 884930, 903200, 919243, 933193, 945201, 955435, 964070, 971283,
    977250, 982136, 986097, 989276, 991802, 993790, 995339, 996533, 997445, 998134,
    998650, 999032, 999313, 999517, 999663, 999767, 999841, 999892, 999928, 999952,
    999968, 999979, 999987, 999991, 999995, 999997, 999998, 999999, 999999, 1000000,
    1000000
  >>

NormPpfTable ==
    << 0, 674, 842, 1282, 1645, 1960, 2326, 2576 >>

TDfKeys ==
    { 1000, 1342, 1470, 2000, 2272, 2942, 2951, 3000, 4000, 4001, 4027, 5000, 6000, 7000, 8000, 9000, 10000, 11000, 12000, 13000, 14000, 15000, 16000 }

TCdfTable(df) ==
  CASE df = 1000 ->
  <<
    500000, 531726, 562833, 592774, 621119, 647584, 672021, 694400, 714777, 733262,
    750000, 765146, 778858, 791286, 802568, 812833, 822192, 830747, 838586, 845786,
    852416, 858537, 864200, 869452, 874334, 878881, 883125, 887094, 890812, 894302,
    897584, 900674, 903589, 906342, 908947, 911414, 913755, 915978, 918091, 920103,
    922021, 923850, 925597, 927267, 928865, 930396, 931862, 933270, 934621, 935919,
    937167, 938368, 939525, 940639, 941714, 942751, 943752, 944719, 945653, 946557,
    947432, 948278, 949098, 949893, 950663, 951410, 952135, 952839, 953523, 954187,
    954833, 955461, 956071, 956666, 957244, 957808, 958356, 958891, 959412, 959921,
    960417, 960900, 961372, 961833, 962283, 962723, 963153, 963573, 963983, 964384,
    964777, 965161, 965536, 965904, 966264, 966617, 966962, 967300, 967631, 967956,
    968274
  >>
    [] df = 1342 ->
  <<
    500000, 533414, 566256, 598010, 628249, 656668, 683078, 707400, 729645, 749887,
    768243, 784854, 799871, 813446, 825725, 836842, 846924, 856083, 864419, 872023,
    878973, 885339, 891183, 896560, 901517, 906097, 910337, 914270, 917925, 921328,
    924501, 927467, 930242, 932843, 935285, 937580, 939742, 941779, 943702, 945520,
    947240, 948870, 950416, 951883, 953278, 954605, 955869, 957074, 958223, 959321,
    960370, 961374, 962334, 963254, 964137, 964983, 965796, 966576, 967327, 968048,
    968743, 969412, 970057, 970678, 971278, 971857, 972416, 972956, 973478, 973982,
    974471, 974944, 975401, 975845, 976275, 976691, 977096, 977488, 977868, 978238,
    978597, 978946, 979285, 979615, 979936, 980248, 980552, 980848, 981136, 981417,
    981690, 981957, 982217, 982470, 982717, 982959, 983194, 983424, 983649, 983868,
    984082
  >>
    [] df = 1470 ->
  <<
    500000, 533881, 567204, 599460, 630225, 659188, 686150, 711020, 733795, 754538,
    773356, 790385, 805774, 819674, 832230, 843583, 853860, 863176, 871638, 879337,
    886356, 892769, 898640, 904027, 908979, 913542, 917754, 921649, 925259, 928610,
    931726, 934630, 937340, 939872, 942244, 944467, 946554, 948516, 950364, 952106,
    953749, 955303, 956773, 958165, 959485, 960737, 961928, 963060, 964137, 965164,
    966143, 967077, 967970, 968823, 969639, 970420, 971169, 971887, 972575, 973236,
    973871, 974482, 975069, 975634, 976177, 976702, 977207, 977694, 978164, 978618,
    979056, 979480, 979889, 980285, 980669, 981039, 981399, 981747, 982084, 982411,
    982728, 983036, 983335, 983625, 983906, 984180, 984446, 984705, 984956, 985201,
    985439, 985671, 985897, 986116, 986330, 986539, 986742, 986941, 987134, 987323,
    987507
  >>
    [] df = 2000 ->
  <<
    500000, 535267, 570014, 603757, 636083, 666667, 695283, 721803, 746183, 768447,
    788675, 806980, 823498, 838376, 851763, 863803, 874634, 884383, 893167, 901090,
    908248, 914725, 920596, 925926, 930775, 935194, 939229, 942921, 946304, 949410,
    952267, 954900, 957330, 959576, 961657, 963586, 965379, 967047, 968600, 970050,
    971405, 972672, 973858, 974971, 976017, 976999, 977924, 978795, 979616, 980392,
    981125, 981819, 982475, 983097, 983688, 984248, 984780, 985287, 985768, 986227,
    986664, 987081, 987479, 987859, 988223, 988570, 988902, 989221, 989525, 989818,
    990098, 990367, 990625, 990873, 991112, 991341, 991562, 991774, 991979, 992176,
    992366, 992549, 992726, 992896, 993061, 993220, 993374, 993522, 993666, 993805,
    993939, 994069, 994195, 994317, 994436, 994550, 994661, 994769, 994874, 994975,
    995074
  >>
    [] df = 2272 ->
  <<
    500000, 535760, 571012, 605284, 638165, 669328, 698539, 725655, 750618, 773438,
    794181, 812953, 829883, 845115, 858797, 871077, 882093, 891979, 900855, 908831,
    916008, 922473, 928307, 933578, 938351, 942678, 946610, 950188, 953450, 956429,
    959156, 961654, 963949, 966059, 968002, 969796, 971453, 972987, 974409, 975729,
    976956, 978098, 979163, 980157, 981085, 981954, 982768, 983531, 984247, 984920,
    985554, 986150, 986712, 987243, 987744, 988218, 988666, 989090, 989493, 989874,
    990236, 990581, 990908, 991219, 991515, 991797, 992066, 992323, 992568, 992802,
    993026, 993240, 993445, 993641, 993828, 994008, 994181, 994346, 994505, 994658,
    994804, 994945, 995081, 995211, 995337, 995458, 995574, 995686, 995794, 995899,
    995999, 996097, 996190, 996281, 996369, 996453, 996535, 996614, 996691, 996765,
    996837
  >>
    [] df = 2942 ->
  <<
    500000, 536615, 572746, 607937, 641784, 673959, 704210, 732375, 758368, 782173,
    803834, 823435, 841095, 856950, 871145, 883829, 895149, 905243, 914242, 922266,
    929423, 935812, 941520, 946627, 951201, 955303, 958989, 962305, 965294, 967992,
    970431, 972641, 974645, 976466, 978124, 979636, 981017, 982279, 983436, 984497,
    985472, 986369, 987195, 987958, 988662, 989314, 989918, 990479, 990999, 991482,
    991933, 992352, 992744, 993109, 993451, 993771, 994070, 994351, 994615, 994863,
    995096, 995315, 995521, 995716, 995899, 996073, 996236, 996391, 996538, 996677,
    996808, 996933, 997051, 997164, 997270, 997372, 997468, 997560, 997648, 997731,
    997811, 997887, 997959, 998028, 998094, 998157, 998218, 998276, 998331, 998384,
    998435, 998483, 998530, 998575, 998618, 998659, 998699, 998737, 998774, 998809,
    998843
  >>
    [] df = 2951 ->
  <<
    500000, 536625, 572767, 607968, 641827, 674014, 704278, 732455, 758460, 782277,
    803949, 823561, 841229, 857091, 871292, 883982, 895305, 905401, 914402, 922425,
    929581, 935969, 941675, 946779, 951350, 955450, 959132, 962445, 965429, 968123,
    970559, 972764, 974765, 976583, 978237, 979745, 981121, 982380, 983534, 984591,
    985563, 986457, 987280, 988040, 988742, 989391, 989993, 990550, 991068, 991550,
    991998, 992415, 992804, 993168, 993508, 993826, 994124, 994403, 994665, 994911,
    995143, 995360, 995565, 995759, 995941, 996113, 996276, 996429, 996575, 996713,
    996843, 996967, 997084, 997196, 997302, 997402, 997498, 997589, 997676, 997759,
    997837, 997913, 997984, 998053, 998118, 998181, 998241, 998298, 998353, 998405,
    998456, 998504, 998550, 998594, 998637, 998678, 998717, 998755, 998791, 998826,
    998859
  >>
    [] df = 3000 ->
  <<
    500000, 536674, 572865, 608118, 642032, 674276, 704599, 732837, 758901, 782774,
    804499, 824158, 841869, 857766, 871996, 884708, 896048, 906155, 915160, 923184,
    930337, 936717, 942414, 947506, 952063, 956147, 959812, 963107, 966074, 968749,
    971166, 973352, 975334, 977133, 978769, 980259, 981619, 982861, 983998, 985040,
    985996, 986875, 987684, 988430, 989118, 989755, 990344, 990890, 991396, 991866,
    992304, 992711, 993091, 993445, 993776, 994085, 994375, 994646, 994900, 995139,
    995364, 995575, 995773, 995960, 996136, 996303, 996460, 996608, 996748, 996881,
    997007, 997126, 997239, 997346, 997448, 997545, 997636, 997724, 997807, 997886,
    997962, 998034, 998102, 998168, 998230, 998290, 998347, 998402, 998454, 998504,
    998552, 998598, 998642, 998684, 998725, 998763, 998801, 998837, 998871, 998904,
    998936
  >>
    [] df = 4000 ->
  <<
    500000, 537422, 574381, 610439, 645201, 678335, 709579, 738750, 765736, 790497,
    813050, 833458, 851824, 868274, 882950, 896000, 907575, 917823, 926881, 934881,
    941942, 948173, 953674, 958530, 962822, 966617, 969976, 972953, 975594, 977941,
    980029, 981889, 983550, 985033, 986361, 987552, 988621, 989582, 990448, 991229,
    991935, 992573, 993152, 993677, 994154, 994589, 994985, 995346, 995676, 995978,
    996255, 996509, 996742, 996956, 997154, 997336, 997504, 997659, 997803, 997936,
    998059, 998173, 998279, 998378, 998470, 998555, 998635, 998709, 998778, 998843,
    998904, 998961, 999014, 999064, 999111, 999155, 999196, 999235, 999271, 999306,
    999338, 999369, 999397, 999425, 999450, 999475, 999498, 999519, 999540, 999560,
    999578, 999596, 999612, 999628, 999643, 999657, 999671, 999684, 999696, 999708,
    999719
  >>
    [] df = 4001 ->
  <<
    500000, 537422, 574381, 610439, 645201, 678335, 709579, 738750, 765736, 790497,
    813050, 833458, 851824, 868274, 882950, 896000, 907575, 917823, 926881, 934881,
    941942, 948173, 953674, 958530, 962822, 966617, 969976, 972953, 975594, 977941,
    980029, 981889, 983550, 985033, 986361, 987552, 988621, 989582, 990448, 991229,
    991935, 992573, 993152, 993677, 994154, 994589, 994985, 995346, 995676, 995978,
    996255, 996509, 996742, 996956, 997154, 997336, 997504, 997659, 997803, 997936,
    998059, 998173, 998279, 998378, 998470, 998555, 998635, 998709, 998778, 998843,
    998904, 998961, 999014, 999064, 999111, 999155, 999196, 999235, 999271, 999306,
    999338, 999369, 999397, 999425, 999450, 999475, 999498, 999519, 999540, 999560,
    999578, 999596, 999612, 999628, 999643, 999657, 999671, 999684, 999696, 999708,
    999719
  >>
    [] df = 4027 ->
  <<
    500000, 537422, 574381, 610439, 645201, 678335, 709579, 738750, 765736, 790497,
    813050, 833458, 851824, 868274, 882950, 896000, 907575, 917823, 926881, 934881,
    941942, 948173, 953674, 958530, 962822, 966617, 969976, 972953, 975594, 977941,
    980029, 981889, 983550, 985033, 986361, 987552, 988621, 989582, 990448, 991229,
    991935, 992573, 993152, 993677, 994154, 994589, 994985, 995346, 995676, 995978,
    996255, 996509, 996742, 996956, 997154, 997336, 997504, 997659, 997803, 997936,
    998059, 998173, 998279, 998378, 998470, 998555, 998635, 998709, 998778, 998843,
    998904, 998961, 999014, 999064, 999111, 999155, 999196, 999235, 999271, 999306,
    999338, 999369, 999397, 999425, 999450, 999475, 999498, 999519, 999540, 999560,
    999578, 999596, 999612, 999628, 999643, 999657, 999671, 999684, 999696, 999708,
    999719
  >>
    [] df = 5000 ->
  <<
    500000, 537885, 575320, 611875, 647163, 680851, 712670, 742426, 769993, 795314,
    818391, 839275, 858054, 874850, 889798, 903048, 914752, 925062, 934121, 942068,
    949030, 955123, 960453, 965114, 969190, 972755, 975875, 978608, 981003, 983105,
    984950, 986573, 988002, 989262, 990374, 991358, 992228, 993000, 993686, 994295,
    994838, 995323, 995755, 996142, 996489, 996800, 997080, 997331, 997558, 997763,
    997948, 998115, 998266, 998404, 998529, 998642, 998746, 998840, 998926, 999005,
    999077, 999143, 999203, 999259, 999310, 999357, 999400, 999440, 999476, 999510,
    999542, 999571, 999597, 999622, 999645, 999667, 999687, 999705, 999723, 999739,
    999754, 999768, 999781, 999793, 999804, 999815, 999825, 999834, 999843, 999851,
    999859, 999866, 999873, 999879, 999885, 999891, 999896, 999901, 999906, 999910,
    999915
  >>
    [] df = 6000 ->
  <<
    500000, 538199, 575957, 612850, 648496, 682560, 714772, 744928, 772895, 798602,
    822041, 843252, 862316, 879347, 894479, 907860, 919642, 929980, 939024, 946915,
    953787, 959761, 964949, 969450, 973353, 976736, 979669, 982212, 984418, 986333,
    987996, 989442, 990700, 991796, 992752, 993587, 994317, 994956, 995516, 996008,
    996441, 996821, 997157, 997454, 997716, 997948, 998154, 998337, 998500, 998645,
    998774, 998889, 998993, 999085, 999168, 999243, 999310, 999370, 999424, 999473,
    999518, 999558, 999594, 999627, 999657, 999684, 999709, 999732, 999752, 999771,
    999788, 999804, 999818, 999832, 999844, 999855, 999865, 999874, 999883, 999891,
    999898, 999905, 999911, 999917, 999922, 999927, 999932, 999936, 999940, 999944,
    999947, 999951, 999954, 999956, 999959, 999961, 999963, 999966, 999968, 999969,
    999971
  >>
    [] df = 7000 ->
  <<
    500000, 538426, 576417, 613555, 649459, 683796, 716293, 746741, 774999, 800988,
    824692, 846142, 865414, 882616, 897879, 911351, 923184, 933536, 942558, 950397,
    957190, 963064, 968134, 972504, 976267, 979504, 982287, 984680, 986738, 988507,
    990029, 991339, 992467, 993440, 994279, 995003, 995630, 996173, 996643, 997051,
    997405, 997713, 997982, 998217, 998422, 998601, 998758, 998896, 999017, 999123,
    999217, 999300, 999373, 999438, 999496, 999547, 999592, 999632, 999668, 999700,
    999729, 999754, 999777, 999798, 999816, 999833, 999848, 999861, 999873, 999884,
    999894, 999903, 999911, 999919, 999925, 999931, 999937, 999942, 999946, 999951,
    999954, 999958, 999961, 999964, 999967, 999969, 999971, 999973, 999975, 999977,
    999979, 999980, 999982, 999983, 999984, 999985, 999986, 999987, 999988, 999989,
    999989
  >>
    [] df = 8000 ->
  <<
    500000, 538598, 576765, 614088, 650188, 684732, 717445, 748114, 776593, 802798,
    826703, 848336, 867766, 885098, 900460, 913998, 925867, 936224, 945223, 953016,
    959742, 965531, 970503, 974765, 978412, 981529, 984191, 986463, 988401, 990054,
    991464, 992667, 993694, 994571, 995320, 995960, 996509, 996979, 997382, 997728,
    998025, 998281, 998502, 998692, 998857, 998999, 999122, 999229, 999322, 999403,
    999474, 999535, 999589, 999636, 999677, 999713, 999745, 999773, 999797, 999819,
    999838, 999855, 999870, 999884, 999895, 999906, 999915, 999924, 999931, 999938,
    999944, 999949, 999954, 999958, 999962, 999965, 999968, 999971, 999974, 999976,
    999978, 999980, 999982, 999983, 999985, 999986, 999987, 999988, 999989, 999990,
    999991, 999991, 999992, 999993, 999993, 999994, 999994, 999995, 999995, 999995,
    999996
  >>
    [] df = 9000 ->
  <<
    500000, 538732, 577037, 614505, 650758, 685464, 718347, 749190, 777844, 804217,
    828282, 850059, 869613, 887047, 902486, 916075, 927969, 938326, 947305, 955056,
    961724, 967441, 972330, 976500, 980051, 983069, 985631, 987803, 989644, 991202,
    992522, 993639, 994584, 995385, 996063, 996638, 997126, 997540, 997891, 998190,
    998445, 998662, 998847, 999005, 999140, 999256, 999355, 999440, 999513, 999576,
    999631, 999677, 999718, 999753, 999783, 999810, 999833, 999853, 999870, 999885,
    999899, 999910, 999921, 999930, 999937, 999944, 999950, 999956, 999960, 999965,
    999968, 999972, 999975, 999977, 999979, 999982, 999983, 999985, 999986, 999988,
    999989, 999990, 999991, 999992, 999993, 999993, 999994, 999994, 999995, 999995,
    999996, 999996, 999996, 999997, 999997, 999997, 999997, 999998, 999998, 999998,
    999998
  >>
    [] df = 10000 ->
  <<
    500000, 538840, 577255, 614840, 651216, 686053, 719072, 750056, 778850, 805360,
    829553, 851447, 871102, 888617, 904117, 917746, 929659, 940015, 948974, 956689,
    963306, 968961, 973779, 977873, 981342, 984277, 986754, 988843, 990603, 992083,
    993328, 994375, 995254, 995993, 996614, 997137, 997576, 997946, 998257, 998519,
    998741, 998928, 999086, 999219, 999332, 999428, 999510, 999579, 999638, 999688,
    999731, 999768, 999799, 999826, 999849, 999869, 999886, 999901, 999914, 999924,
    999934, 999942, 999949, 999955, 999961, 999966, 999970, 999973, 999976, 999979,
    999981, 999984, 999985, 999987, 999988, 999990, 999991, 999992, 999993, 999993,
    999994, 999995, 999995, 999996, 999996, 999997, 999997, 999997, 999997, 999998,
    999998, 999998, 999998, 999998, 999999, 999999, 999999, 999999, 999999, 999999,
    999999
  >>
    [] df = 11000 ->
  <<
    500000, 538928, 577435, 615115, 651593, 686537, 719668, 750768, 779677, 806300,
    830600, 852589, 872327, 889909, 905460, 919121, 931048, 941402, 950342, 958025,
    964598, 970200, 974957, 978984, 982384, 985247, 987653, 989672, 991363, 992777,
    993960, 994948, 995773, 996461, 997035, 997515, 997915, 998249, 998528, 998762,
    998957, 999120, 999257, 999372, 999468, 999549, 999618, 999675, 999723, 999764,
    999799, 999828, 999853, 999874, 999892, 999907, 999920, 999931, 999940, 999948,
    999955, 999961, 999966, 999971, 999975, 999978, 999981, 999983, 999985, 999987,
    999989, 999990, 999991, 999992, 999993, 999994, 999995, 999995, 999996, 999996,
    999997, 999997, 999997, 999998, 999998, 999998, 999998, 999999, 999999, 999999,
    999999, 999999, 999999, 999999, 999999, 999999, 999999, 999999, 1000000, 1000000,
    1000000
  >>
    [] df = 12000 ->
  <<
    500000, 539002, 577585, 615345, 651907, 686941, 720167, 751363, 780369, 807087,
    831475, 853545, 873353, 890991, 906583, 920271, 932210, 942560, 951484, 959138,
    965672, 971228, 975932, 979901, 983241, 986042, 988387, 990345, 991978, 993337,
    994467, 995405, 996184, 996830, 997365, 997809, 998177, 998482, 998735, 998945,
    999119, 999264, 999384, 999484, 999567, 999637, 999695, 999743, 999783, 999817,
    999845, 999869, 999889, 999906, 999920, 999932, 999942, 999950, 999958, 999964,
    999969, 999973, 999977, 999980, 999983, 999985, 999987, 999989, 999990, 999992,
    999993, 999994, 999995, 999995, 999996, 999996, 999997, 999997, 999998, 999998,
    999998, 999998, 999999, 999999, 999999, 999999, 999999, 999999, 999999, 999999,
    999999, 1000000, 1000000, 1000000, 1000000, 1000000, 1000000, 1000000, 1000000, 1000000,
    1000000
  >>
    [] df = 13000 ->
  <<
    500000, 539065, 577712, 615540, 652174, 687284, 720590, 751868, 780957, 807755,
    832219, 854358, 874224, 891911, 907538, 921248, 933195, 943542, 952451, 960079,
    966580, 972094, 976751, 980671, 983957, 986706, 988997, 990903, 992485, 993796,
    994881, 995777, 996516, 997126, 997629, 998043, 998384, 998665, 998896, 999087,
    999244, 999373, 999480, 999568, 999641, 999701, 999751, 999792, 999827, 999855,
    999879, 999898, 999914, 999928, 999939, 999949, 999957, 999964, 999969, 999974,
    999978, 999981, 999984, 999986, 999988, 999990, 999991, 999993, 999994, 999995,
    999995, 999996, 999997, 999997, 999997, 999998, 999998, 999998, 999999, 999999,
    999999, 999999, 999999, 999999, 999999, 999999, 999999, 1000000, 1000000, 1000000,
    1000000, 1000000, 1000000, 1000000, 1000000, 1000000, 1000000, 1000000, 1000000, 1000000,
    1000000
  >>
    [] df = 14000 ->
  <<
    500000, 539119, 577822, 615707, 652403, 687579, 720953, 752302, 781462, 808330,
    832859, 855056, 874974, 892701, 908359, 922087, 934042, 944385, 953280, 960886,
    967356, 972833, 977450, 981325, 984566, 987267, 989511, 991372, 992910, 994179,
    995224, 996084, 996790, 997369, 997844, 998232, 998551, 998811, 999025, 999199,
    999342, 999459, 999555, 999633, 999698, 999750, 999794, 999829, 999859, 999883,
    999903, 999919, 999933, 999944, 999953, 999961, 999967, 999973, 999977, 999981,
    999984, 999986, 999988, 999990, 999992, 999993, 999994, 999995, 999996, 999996,
    999997, 999997, 999998, 999998, 999998, 999999, 999999, 999999, 999999, 999999,
    999999, 999999, 999999, 1000000, 1000000, 1000000, 1000000, 1000000, 1000000, 1000000,
    1000000, 1000000, 1000000, 1000000, 1000000, 1000000, 1000000, 1000000, 1000000, 1000000,
    1000000
  >>
    [] df = 15000 ->
  <<
    500000, 539166, 577917, 615853, 652603, 687835, 721269, 752679, 781901, 808829,
    833415, 855664, 875625, 893388, 909072, 922817, 934777, 945117, 953999, 961584,
    968027, 973472, 978052, 981888, 985088, 987747, 989950, 991771, 993270, 994503,
    995514, 996341, 997018, 997571, 998021, 998388, 998687, 998930, 999128, 999289,
    999420, 999527, 999614, 999684, 999742, 999788, 999827, 999858, 999883, 999904,
    999921, 999935, 999946, 999955, 999963, 999969, 999975, 999979, 999982, 999985,
    999988, 999990, 999992, 999993, 999994, 999995, 999996, 999996, 999997, 999997,
    999998, 999998, 999998, 999999, 999999, 999999, 999999, 999999, 999999, 999999,
    1000000, 1000000, 1000000, 1000000, 1000000, 1000000, 1000000, 1000000, 1000000, 1000000,
    1000000, 1000000, 1000000, 1000000, 1000000, 1000000, 1000000, 1000000, 1000000, 1000000,
    1000000
  >>
    [] df = 16000 ->
  <<
    500000, 539207, 578000, 615980, 652777, 688059, 721545, 753010, 782286, 809267,
    833903, 856196, 876197, 893991, 909698, 923456, 935422, 945758, 954628, 962195,
    968614, 974030, 978577, 982377, 985540, 988163, 990330, 992114, 993579, 994779,
    995760, 996560, 997211, 997740, 998170, 998518, 998800, 999029, 999214, 999363,
    999484, 999582, 999661, 999725, 999776, 999818, 999852, 999880, 999902, 999920,
    999935, 999946, 999956, 999964, 999971, 999976, 999980, 999984, 999986, 999989,
    999991, 999992, 999994, 999995, 999996, 999996, 999997, 999997, 999998, 999998,
    999999, 999999, 999999, 999999, 999999, 999999, 999999, 1000000, 1000000, 1000000,
    1000000, 1000000, 1000000, 1000000, 1000000, 1000000, 1000000, 1000000, 1000000, 1000000,
    1000000, 1000000, 1000000, 1000000, 1000000, 1000000, 1000000, 1000000, 1000000, 1000000,
    1000000
  >>

TPpfTable(df) ==
  CASE df = 1000 -> << 0, 1000, 1376, 3078, 6314, 12706, 31821, 63657 >>
    [] df = 1342 -> << 0, 901, 1201, 2369, 4173, 7112, 14171, 23785 >>
    [] df = 1470 -> << 0, 877, 1161, 2224, 3780, 6188, 11650, 18709 >>
    [] df = 2000 -> << 0, 816, 1061, 1886, 2920, 4303, 6965, 9925 >>
    [] df = 2272 -> << 0, 797, 1030, 1790, 2695, 3844, 5934, 8140 >>
    [] df = 2942 -> << 0, 767, 982, 1647, 2373, 3219, 4614, 5958 >>
    [] df = 2951 -> << 0, 767, 981, 1645, 2369, 3212, 4601, 5938 >>
    [] df = 3000 -> << 0, 765, 978, 1638, 2353, 3182, 4541, 5841 >>
    [] df = 4000 -> << 0, 741, 941, 1533, 2132, 2776, 3747, 4604 >>
    [] df = 4001 -> << 0, 741, 941, 1533, 2132, 2776, 3747, 4604 >>
    [] df = 4027 -> << 0, 741, 941, 1533, 2132, 2776, 3747, 4604 >>
    [] df = 5000 -> << 0, 727, 920, 1476, 2015, 2571, 3365, 4032 >>
    [] df = 6000 -> << 0, 718, 906, 1440, 1943, 2447, 3143, 3707 >>
    [] df = 7000 -> << 0, 711, 896, 1415, 1895, 2365, 2998, 3499 >>
    [] df = 8000 -> << 0, 706, 889, 1397, 1860, 2306, 2896, 3355 >>
    [] df = 9000 -> << 0, 703, 883, 1383, 1833, 2262, 2821, 3250 >>
    [] df = 10000 -> << 0, 700, 879, 1372, 1812, 2228, 2764, 3169 >>
    [] df = 11000 -> << 0, 697, 876, 1363, 1796, 2201, 2718, 3106 >>
    [] df = 12000 -> << 0, 695, 873, 1356, 1782, 2179, 2681, 3055 >>
    [] df = 13000 -> << 0, 694, 870, 1350, 1771, 2160, 2650, 3012 >>
    [] df = 14000 -> << 0, 692, 868, 1345, 1761, 2145, 2624, 2977 >>
    [] df = 15000 -> << 0, 691, 866, 1341, 1753, 2131, 2602, 2947 >>
    [] df = 16000 -> << 0, 690, 865, 1337, 1746, 2120, 2583, 2921 >>

\* Index of probability p (millionths, >= 1/2) in ProbKeys.
ProbIndex(p) == CHOOSE i \in 1..Len(ProbKeys) : ProbKeys[i] = p

\* Quantile from a table of upper quantiles, by the symmetry q(p) = -q(1-p).
Quantile(tbl, p) ==
    IF IsNaN(p) \/ p.k = "inf" \/ p.v < 0 \/ p.v > 1000000 THEN NaN
    ELSE IF p.v = 0 THEN NegInf
    ELSE IF p.v = 1000000 THEN PosInf
    ELSE IF p.v >= 500000 THEN F(tbl[ProbIndex(p.v)])
    ELSE F(-tbl[ProbIndex(1000000 - p.v)])

\* stats.norm.ppf(p)
norm_ppf(p) == Quantile(NormPpfTable, p)

\* stats.norm.cdf(z); beyond 5.0 the value is 1 to six decimals.
norm_cdf(z) ==
    IF IsNaN(z) THEN NaN
    ELSE IF z.k = "inf" THEN (IF z.v > 0 THEN F(1000000) ELSE F(0))
    ELSE LET i == Abs(z.v) \div 100
             up == IF i >= Len(NormCdfTable) THEN 1000000
                   ELSE NormCdfTable[i + 1]
         IN  IF z.v >= 0 THEN F(up) ELSE F(1000000 - up)

\* stats.t.ppf(p, df): NaN when df <= 0.
t_ppf(p, df) ==
    IF IsNaN(df) \/ FLe(df, F(0)) THEN NaN
    ELSE Quantile(TPpfTable(df.v), p)

\* stats.t.cdf(t, df): NaN when df <= 0.
t_cdf(t, df) ==
    IF IsNaN(df) \/ FLe(df, F(0)) \/ IsNaN(t) THEN NaN
    ELSE IF t.k = "inf" THEN (IF t.v > 0 THEN F(1000000) ELSE F(0))
    ELSE LET up == TCdfTable(df.v)[(Abs(t.v) \div 100) + 1]
         IN  IF t.v >= 0 THEN F(up) ELSE F(1000000 - up)

(***************************************************************************)
(* What a call does: it raises, or it returns a result mapping.  The text  *)
(* fields of a result (steps, formula, interpretation, description) are    *)
(* built from the numeric fields and are not carried.                      *)
(***************************************************************************)
NoResult == [absent |-> TRUE]

Raised(e) == [raised |-> e, result |-> NoResult]

Returned(r) == [raised |-> "none", result |-> r]

HasResult(o) == o.raised = "none"

One == F(1000000)

(***************************************************************************)
(* ConfidenceIntervals                                                     *)
(***************************************************************************)
\* The result of mean_confidence_interval once critical value and standard
\* error are known.
MeanInterval(sample_mean, confidence_level, critical_value, std_error, distribution_type, df) ==
    LET margin_error == FMul(critical_value, std_error)
        lower_bound == FSub(sample_mean, margin_error)
        upper_bound == FAdd(sample_mean, margin_error)
    IN  [ lower_bound |-> lower_bound,
          upper_bound |-> upper_bound,
          confidence_interval |-> <<lower_bound, upper_bound>>,
          margin_of_error |-> margin_error,
          critical_value |-> critical_value,
          standard_error |-> std_error,
          distribution_type |-> distribution_type,
          degrees_of_freedom |-> df,
          confidence_level |-> confidence_level ]

\* A test that never finds the standard deviation missing.
NeverMissing(std) == FALSE

\* Line 64 (and hypothesis_testing.py line 73): "if sample_std is None".
MissingStd(std) == IsNone(std)

\* A standard error that divides by n itself.
StdOverN(std, sample_size) == FOver(std, sample_size)

\* Lines 43 and 69 (and hypothesis_testing.py lines 55 and 77):
\* std / math.sqrt(sample_size), for sample_size > 0.
StandardError(std, sample_size) == FDiv(std, SqrtInt(sample_size))

\* A choice of distribution that never is z.
AlwaysT(population_std) == FALSE

\* Line 40 (and hypothesis_testing.py line 53): "if population_std is not
\* None", the z-distribution; else the t-distribution.
UsesZ(population_std) == ~IsNone(population_std)

mean_confidence_interval(sample_mean, sample_size, confidence_level, population_std, sample_std) ==
    LET alpha == FSub(One, confidence_level)
        alpha_half == FOver(alpha, 2)
        df == F((sample_size - 1) * 1000)
    IN  IF UsesZ(population_std)
        THEN \* z-distribution
             IF sample_size < 0 THEN Raised("ValueError")
             ELSE IF sample_size = 0 THEN Raised("ZeroDivisionError")
             ELSE Returned(MeanInterval(sample_mean, confidence_level,
                                        norm_ppf(FSub(One, alpha_half)),
                                        StandardError(population_std, sample_size),
                                        "z", None))
        ELSE \* t-distribution
             IF MissingStd(sample_std) THEN Raised("ValueError")
             ELSE IF sample_size < 0 THEN Raised("ValueError")
             ELSE IF sample_size = 0 THEN Raised("ZeroDivisionError")
             ELSE Returned(MeanInterval(sample_mean, confidence_level,
                                        t_ppf(FSub(One, alpha_half), df),
                                        StandardError(sample_std, sample_size),
                                        "t", df))

\* A check that looks at the expected successes only.
WarnsOnSuccessesOnly(np_hat, nq_hat) ==
    IF FLt(np_hat, F(5000))
    THEN "Warning: Normal approximation may not be appropriate"
    ELSE "None"

\* The normal-approximation check of the proportion methods: a warning text
\* or None.
ApproximationWarning(np_hat, nq_hat) ==
    IF FLt(np_hat, F(5000)) \/ FLt(nq_hat, F(5000))
    THEN "Warning: Normal approximation may not be appropriate"
    ELSE "None"

\* The upper bound left as computed: what line 148 gives without min().
UnclampedUpper(upper_bound) == upper_bound

\* Lines 146-148: the bounds are brought into [0, 1].
ClampLower(lower_bound) == PyMax(F(0), lower_bound)

ClampUpper(upper_bound) == PyMin(F(1000), upper_bound)

proportion_confidence_interval(sample_proportion, sample_size, confidence_level) ==
    LET alpha == FSub(One, confidence_level)
        alpha_half == FOver(alpha, 2)
        np_hat == FTimes(sample_size, sample_proportion)
        nq_hat == FTimes(sample_size, FSub(F(1000), sample_proportion))
        z_critical == norm_ppf(FSub(One, alpha_half))
        pq == FMul(sample_proportion, FSub(F(1000), sample_proportion))
    IN  IF sample_size = 0 THEN Raised("ZeroDivisionError")
        ELSE IF FLt(FOver(pq, sample_size), F(0)) THEN Raised("ValueError")
        ELSE LET std_error == FSqrt(FOver(pq, sample_size))
                 margin_error == FMul(z_critical, std_error)
                 lower_bound == ClampLower(FSub(sample_proportion, margin_error))
                 upper_bound == ClampUpper(FAdd(sample_proportion, margin_error))
             IN  Returned([ lower_bound |-> lower_bound,
                            upper_bound |-> upper_bound,
                            confidence_interval |-> <<lower_bound, upper_bound>>,
                            margin_of_error |-> margin_error,
                            critical_value |-> z_critical,
                            standard_error |-> std_error,
                            confidence_level |-> confidence_level,
                            sample_proportion |-> sample_proportion,
                            sample_size |-> sample_size,
                            warning |-> ApproximationWarning(np_hat, nq_hat) ])

\* The integer part of a finite value, as int() gives it.
IntegerPart(a) == Trunc(a.v, 1000)

\* math.ceil of a finite value in thousandths, as a Python int.
Ceil(a) == -((-a.v) \div 1000)

\* math.ceil raises on NaN (ValueError) and on an infinity (OverflowError).
CeilRaises(a) ==
    IF IsNaN(a) THEN "ValueError" ELSE IF a.k = "inf" THEN "OverflowError" ELSE "none"

sample_size_for_mean(margin_error, confidence_level, population_std) ==
    LET alpha == FSub(One, confidence_level)
        z_critical == norm_ppf(FSub(One, FOver(alpha, 2)))
    IN  IF IsZero(margin_error) THEN Raised("ZeroDivisionError")
        ELSE LET ratio == FDiv(FMul(z_critical, population_std), margin_error)
                 n_exact == FMul(ratio, ratio)
             IN  IF CeilRaises(n_exact) # "none" THEN Raised(CeilRaises(n_exact))
                 ELSE Returned([ sample_size_exact |-> n_exact,
                                 sample_size_required |-> Ceil(n_exact),
                                 margin_error |-> margin_error,
                                 confidence_level |-> confidence_level,
                                 critical_value |-> z_critical,
                                 population_std |-> population_std ])

\* A proportion of one tenth whenever none is supplied.
LowDefault(estimated_proportion) ==
    IF IsNone(estimated_proportion) THEN F(100) ELSE estimated_proportion

\* The proportion sample_size_for_proportion computes with: 0.5 when no
\* estimate is given.
PEstimate(estimated_proportion) ==
    IF IsNone(estimated_proportion) THEN F(500) ELSE estimated_proportion

\* z^2 p (1 - p) / ME^2, evaluated as (z / ME)^2 p (1 - p): the same real
\* number, in an order that keeps three decimals.
sample_size_for_proportion(margin_error, confidence_level, estimated_proportion) ==
    LET alpha == FSub(One, confidence_level)
        z_critical == norm_ppf(FSub(One, FOver(alpha, 2)))
        conservative == IsNone(estimated_proportion)
        p_estimate == PEstimate(estimated_proportion)
    IN  IF IsZero(margin_error) THEN Raised("ZeroDivisionError")
        ELSE LET ratio == FDiv(z_critical, margin_error)
                 n_exact == FMul(FMul(FMul(ratio, ratio), p_estimate),
                                 FSub(F(1000), p_estimate))
             IN  IF CeilRaises(n_exact) # "none" THEN Raised(CeilRaises(n_exact))
                 ELSE Returned([ sample_size_exact |-> n_exact,
                                 sample_size_required |-> Ceil(n_exact),
                                 margin_error |-> margin_error,
                                 confidence_level |-> confidence_level,
                                 critical_value |-> z_critical,
                                 estimated_proportion |-> p_estimate,
                                 conservative_estimate |-> conservative ])

(***************************************************************************)
(* The web layer's rounding (stats_routes.py)                              *)
(***************************************************************************)
RECURSIVE Pow10(_)
Pow10(n) == IF n <= 0 THEN 1 ELSE 10 * Pow10(n - 1)

\* v rounded to the nearest multiple of unit, halves to the even multiple.
RoundHalfEven(v, unit) ==
    LET q == v \div unit
        r == v % unit
    IN  IF 2 * r > unit \/ (2 * r = unit /\ q % 2 = 1) THEN (q + 1) * unit
        ELSE q * unit

\* Result fields holding probabilities (six decimals carried).
ProbabilityFields ==
    {"confidence_level", "p_value", "alpha", "probability"}

\* Result fields holding other floats (three decimals carried), or None.
FloatFields ==
    {"lower_bound", "upper_bound", "margin_of_error", "critical_value",
     "standard_error", "degrees_of_freedom", "sample_proportion",
     "sample_size_exact", "margin_error", "population_std",
     "estimated_proportion", "test_statistic", "null_proportion",
     "sample1_proportion", "sample2_proportion", "pooled_proportion",
     "pooled_variance", "z_score", "x_value", "percentile", "percentage",
     "z_critical_lower", "z_critical_upper", "x_critical_lower",
     "x_critical_upper", "lower", "upper"}

\* Result fields holding a mapping of floats.
DictFields == {"one_std", "two_std", "three_std"}

\* Result fields holding lists of floats.
ListFields == {"confidence_interval", "critical_values", "z_scores"}

\* Result fields holding a bool.
BoolFields == {"reject_null", "conservative_estimate", "equal_variances"}

\* The keys apply_rounding copies untouched.
TextKeys ==
    {"steps", "formula", "description", "interpretation", "conclusion",
     "null_hypothesis", "alternative_hypothesis", "warning"}

\* round(value, decimals) on a float carrying `carried` decimals; NaN, the
\* infinities and None come back as they are.
RoundFloat(a, decimals, carried) ==
    IF a.k = "ratio" THEN F(RoundHalfEven(RatioValue(a).v, Pow10(carried - decimals)))
    ELSE IF ~IsNum(a) THEN a
    ELSE F(RoundHalfEven(a.v, Pow10(carried - decimals)))

\* The sections of a DescriptiveStats result: mappings from measure to
\* mapping.
SectionFields ==
    {"measures_of_central_tendency", "measures_of_dispersion", "measures_of_position",
     "standard_error_analysis"}

\* round_result on a mapping of floats.
RoundMeasure(measure, decimals) ==
    [f \in DOMAIN measure |-> RoundFloat(measure[f], decimals, 3)]

\* round_result on one section of a DescriptiveStats result.
RoundSection(key, section, decimals) ==
    IF key = "data_info"
    THEN [ original_data |->
               [i \in DOMAIN section.original_data |->
                   RoundFloat(section.original_data[i], decimals, 3)],
           sorted_data |->
               [i \in DOMAIN section.sorted_data |->
                   RoundFloat(section.sorted_data[i], decimals, 3)],
           sample_size |-> section.sample_size ]
    ELSE IF key = "five_number_summary"
    THEN [f \in DOMAIN section |->
             IF f = "iqr" THEN RoundMeasure(section[f], decimals)
             ELSE RoundFloat(section[f], decimals, 3)]
    ELSE IF key = "custom_percentile" THEN RoundMeasure(section, decimals)
    ELSE [m \in DOMAIN section |-> RoundMeasure(section[m], decimals)]

\* round_result on the value of field key: floats are rounded, a bool is an
\* int to isinstance and comes back as the int 1 or 0, lists are rounded
\* item by item, mappings value by value, an int stays, None and text fall to the last branch.
round_result(key, value, decimals) ==
    IF key \in SectionFields \cup {"data_info", "five_number_summary", "custom_percentile"}
    THEN RoundSection(key, value, decimals)
    ELSE IF key \in ProbabilityFields THEN RoundFloat(value, decimals, 6)
    ELSE IF key \in FloatFields THEN RoundFloat(value, decimals, 3)
    ELSE IF key \in ListFields
         THEN [i \in DOMAIN value |-> RoundFloat(value[i], decimals, 3)]
    ELSE IF key \in DictFields
         THEN [k \in DOMAIN value |-> RoundFloat(value[k], decimals, 3)]
    ELSE IF key \in BoolFields THEN (IF value THEN 1 ELSE 0)
    ELSE value

RoundAll(data, decimals) ==
    [key \in DOMAIN data |-> round_result(key, data[key], decimals)]

\* apply_rounding: every key, text keys untouched, plus 'rounded_display'.
apply_rounding(data, decimals) ==
    [key \in DOMAIN data \cup {"rounded_display"} |->
        IF key = "rounded_display" THEN RoundAll(data, decimals)
        ELSE IF key \in TextKeys THEN data[key]
        ELSE round_result(key, data[key], decimals)]

(***************************************************************************)
(* Calls and answers                                                       *)
(***************************************************************************)
NoCall == [path |-> "none", method |-> "none", args |-> <<>>]

CallOf(path, method, args) == [path |-> path, method |-> method, args |-> args]

NoOutcome == [raised |-> "no call", result |-> NoResult]

NoResponse == [status |-> 0, error |-> "None", results |-> NoResult]

\* A route's early return: jsonify({'error': ...}), 400, no calculator called.
Reject(message) ==
    [ call |-> NoCall,
      outcome |-> NoOutcome,
      response |-> [status |-> 400, error |-> message, results |-> NoResult] ]

\* A route without the except clause: the exception leaves the handler and
\* the framework answers 500 with a text of its own.
AnswerUncaught(method, args, o, decimals) ==
    [ call |-> CallOf("web", method, args),
      outcome |-> o,
      response |->
          IF HasResult(o)
          THEN [status |-> 200, error |-> "None",
                results |-> apply_rounding(o.result, decimals)]
          ELSE [status |-> 500, error |-> "Internal Server Error", results |-> NoResult] ]

\* A route after its calculator call: the except clause turns an exception
\* into a 500, a result is rounded and returned with 'success': True.
Answer(method, args, o, decimals) ==
    [ call |-> CallOf("web", method, args),
      outcome |-> o,
      response |->
          IF HasResult(o)
          THEN [status |-> 200, error |-> "None",
                results |-> apply_rounding(o.result, decimals)]
          ELSE [status |-> 500, error |-> o.raised, results |-> NoResult] ]

\* int(x) of a JSON number.
ToInt(a) == Trunc(a.v, 1000)

\* float(x) of a JSON number; None stays None where the route writes
\* "float(x) if x is not None else None".
ToFloat(a) == a

\* Python's chained comparison lo < a < hi.
Between(lo, a, hi) == FLt(lo, a) /\ FLt(a, hi)

(***************************************************************************)
(* Console input helpers (utils/input_helpers.py).  A helper prompts until *)
(* an entry passes its test; entries is what the user types at one prompt, *)
(* in order, and the helper returns the first entry that passes.           *)
(***************************************************************************)
\* ok: the places of the entries that pass; 0 when none does.
FirstAccepted(ok) ==
    IF ok = {} THEN 0 ELSE CHOOSE i \in ok : \A j \in ok : i <= j

\* get_positive_float: "if value > 0: return value".
PositiveFloatOk(v) == FGt(v, F(0))

get_positive_float(entries) == FirstAccepted({i \in DOMAIN entries : PositiveFloatOk(entries[i])})

\* get_positive_int: "if value > 0: return value".
PositiveIntOk(v) == v > 0

get_positive_int(entries) == FirstAccepted({i \in DOMAIN entries : PositiveIntOk(entries[i])})

\* get_proportion: "if 0 <= value <= 1: return value".
ProportionOk(v) == FLe(F(0), v) /\ FLe(v, F(1000))

get_proportion(entries) == FirstAccepted({i \in DOMAIN entries : ProportionOk(entries[i])})

\* get_confidence_level and get_alpha: "if 0 < value < 1: return value".
UnitIntervalOk(v) == Between(F(0), v, One)

get_confidence_level(entries) == FirstAccepted({i \in DOMAIN entries : UnitIntervalOk(entries[i])})

get_alpha(entries) == FirstAccepted({i \in DOMAIN entries : UnitIntervalOk(entries[i])})

\* get_percentile: "if 0 < value < 100: return value".
PercentileOk(v) == Between(F(0), v, F(100000))

get_percentile(entries) == FirstAccepted({i \in DOMAIN entries : PercentileOk(entries[i])})

\* What a user may type at one prompt: one entry, or a rejected entry and
\* then another.
Typed(S) == {<<a>> : a \in S} \cup {<<a, b>> : a \in S, b \in S}


\* No object constructed yet.
NoInstance == [exists |-> FALSE]

(***************************************************************************)
(* /api/statistics/confidence-intervals                                    *)
(***************************************************************************)
\* data.get('decimals', 4)
Decimals(data) == IF IsNone(data.decimals) THEN 4 ELSE ToInt(data.decimals)

confidence_interval_calculations(data) ==
    LET interval_type == data.interval_type
        confidence_level == data.confidence_level
    IN  IF interval_type = "None" \/ IsNone(confidence_level) \/ IsZero(confidence_level)
        THEN Reject("interval_type and confidence_level are required")
        ELSE IF ~Between(F(0), confidence_level, One)
        THEN Reject("confidence_level must be between 0 and 1")
        ELSE IF interval_type = "mean"
        THEN IF IsNone(data.sample_mean) \/ IsNone(data.sample_size)
             THEN Reject("sample_mean and sample_size are required")
             ELSE IF IsNone(data.population_std) /\ IsNone(data.sample_std)
             THEN Reject("Either population_std or sample_std must be provided")
             ELSE LET args == [ sample_mean |-> ToFloat(data.sample_mean),
                                sample_size |-> ToInt(data.sample_size),
                                confidence_level |-> ToFloat(confidence_level),
                                population_std |-> ToFloat(data.population_std),
                                sample_std |-> ToFloat(data.sample_std) ]
                  IN  Answer("mean_confidence_interval", args,
                             mean_confidence_interval(args.sample_mean, args.sample_size,
                                 args.confidence_level, args.population_std, args.sample_std),
                             Decimals(data))
        ELSE IF interval_type = "proportion"
        THEN IF IsNone(data.sample_proportion) \/ IsNone(data.sample_size)
             THEN Reject("sample_proportion and sample_size are required")
             ELSE IF ~(FLe(F(0), data.sample_proportion) /\ FLe(data.sample_proportion, F(1000)))
             THEN Reject("sample_proportion must be between 0 and 1")
             ELSE LET args == [ sample_proportion |-> ToFloat(data.sample_proportion),
                                sample_size |-> ToInt(data.sample_size),
                                confidence_level |-> ToFloat(confidence_level) ]
                  IN  Answer("proportion_confidence_interval", args,
                             proportion_confidence_interval(args.sample_proportion,
                                 args.sample_size, args.confidence_level),
                             Decimals(data))
        ELSE IF interval_type = "sample_size_mean"
        THEN IF IsNone(data.margin_error) \/ IsNone(data.population_std)
             THEN Reject("margin_error and population_std are required")
             ELSE LET args == [ margin_error |-> ToFloat(data.margin_error),
                                confidence_level |-> ToFloat(confidence_level),
                                population_std |-> ToFloat(data.population_std) ]
                  IN  Answer("sample_size_for_mean", args,
                             sample_size_for_mean(args.margin_error, args.confidence_level,
                                 args.population_std),
                             Decimals(data))
        ELSE IF interval_type = "sample_size_proportion"
        THEN IF IsNone(data.margin_error)
             THEN Reject("margin_error is required")
             ELSE LET args == [ margin_error |-> ToFloat(data.margin_error),
                                confidence_level |-> ToFloat(confidence_level),
                                estimated_proportion |-> ToFloat(data.estimated_proportion) ]
                  IN  Answer("sample_size_for_proportion", args,
                             sample_size_for_proportion(args.margin_error,
                                 args.confidence_level, args.estimated_proportion),
                             Decimals(data))
        ELSE Reject("Invalid interval_type")

(***************************************************************************)
(* Console: confidence_intervals_menu.  typed holds what the user enters   *)
(* at each prompt; a prompt none of whose entries passes is still waiting. *)
(***************************************************************************)
ConsoleCall(method, args, o) ==
    [ call |-> CallOf("console", method, args), outcome |-> o, response |-> NoResponse ]

Waiting == [ call |-> NoCall, outcome |-> NoOutcome, response |-> NoResponse ]

\* The entry a helper returns, given the index of the first accepted one.
Entry(entries, i) == entries[IF i = 0 THEN 1 ELSE i]

confidence_intervals_menu(choice, typed) ==
    LET sample_size == Entry(typed.sample_size, get_positive_int(typed.sample_size))
        confidence_level ==
            Entry(typed.confidence_level, get_confidence_level(typed.confidence_level))
        std == Entry(typed.std, get_positive_float(typed.std))
        margin_error == Entry(typed.margin_error, get_positive_float(typed.margin_error))
        proportion == Entry(typed.proportion, get_proportion(typed.proportion))
    IN  IF choice = "1"
        THEN LET args == [ sample_mean |-> typed.sample_mean,
                           sample_size |-> sample_size,
                           confidence_level |-> confidence_level,
                           population_std |-> IF typed.yes THEN std ELSE None,
                           sample_std |-> IF typed.yes THEN None ELSE std ]
             IN  ConsoleCall("mean_confidence_interval", args,
                     mean_confidence_interval(args.sample_mean, args.sample_size,
                         args.confidence_level, args.population_std, args.sample_std))
        ELSE IF choice = "2"
        THEN LET args == [ sample_proportion |-> proportion,
                           sample_size |-> sample_size,
                           confidence_level |-> confidence_level ]
             IN  ConsoleCall("proportion_confidence_interval", args,
                     proportion_confidence_interval(args.sample_proportion,
                         args.sample_size, args.confidence_level))
        ELSE IF choice = "3"
        THEN LET args == [ margin_error |-> margin_error,
                           confidence_level |-> confidence_level,
                           population_std |-> std ]
             IN  ConsoleCall("sample_size_for_mean", args,
                     sample_size_for_mean(args.margin_error, args.confidence_level,
                         args.population_std))
        ELSE IF choice = "4"
        THEN LET args == [ margin_error |-> margin_error,
                           confidence_level |-> confidence_level,
                           estimated_proportion |->
                               IF typed.yes THEN proportion ELSE None ]
             IN  ConsoleCall("sample_size_for_proportion", args,
                     sample_size_for_proportion(args.margin_error,
                         args.confidence_level, args.estimated_proportion))
        ELSE Waiting

\* Every prompt the chosen branch shows got an entry that passes.
CIPromptsAnswered(choice, typed) ==
    /\ choice \in {"1", "2"} => get_positive_int(typed.sample_size) # 0
    /\ choice \in {"1", "2", "3", "4"} => get_confidence_level(typed.confidence_level) # 0
    /\ choice \in {"1", "3"} => get_positive_float(typed.std) # 0
    /\ choice \in {"3", "4"} => get_positive_float(typed.margin_error) # 0
    /\ (choice = "2" \/ (choice = "4" /\ typed.yes)) => get_proportion(typed.proportion) # 0

(***************************************************************************)
(* HypothesisTesting.  A test statistic is carried to one decimal place,   *)
(* the step of the CDF tables.                                             *)
(***************************************************************************)
\* The area of one tail only: 1 - cdf.
OneTailPValue(cdf_abs) == FSub(One, cdf_abs)

\* The two-tailed p-value from the CDF at |statistic|: 2 * (1 - cdf).
TwoTailedPValue(cdf_abs) == FTimes(2, FSub(One, cdf_abs))

\* A left-tailed decision that looks above the critical value.
LeftRejectsAbove(test_stat, critical) == FGt(test_stat, critical)

\* Line 96: the left-tailed decision, statistic < critical_values[0].
LeftRejects(test_stat, critical) == FLt(test_stat, critical)

\* "Critical values and p-value" and "Decision": the block each test
\* repeats, over the quantile function Ppf and the CDF Cdf of its
\* distribution: t with df degrees of freedom, or the normal one when df is
\* None.  Any test_type other than the first two is right-tailed.
Decide(test_stat, alpha, test_type, df) ==
  LET Ppf(p) == IF IsNone(df) THEN norm_ppf(p) ELSE t_ppf(p, df)
      Cdf(t) == IF IsNone(df) THEN norm_cdf(t) ELSE t_cdf(t, df)
  IN
    IF test_type = "two-tailed"
    THEN LET upper == Ppf(FSub(One, FOver(alpha, 2)))
             critical_values == <<FNeg(upper), upper>>
         IN  [ critical_values |-> critical_values,
               p_value |-> TwoTailedPValue(Cdf(FAbs(test_stat))),
               reject_null |-> FGt(FAbs(test_stat), FAbs(critical_values[2])) ]
    ELSE IF test_type = "left-tailed"
    THEN LET critical_values == <<Ppf(alpha)>>
         IN  [ critical_values |-> critical_values,
               p_value |-> Cdf(test_stat),
               reject_null |-> LeftRejects(test_stat, critical_values[1]) ]
    ELSE LET critical_values == <<Ppf(FSub(One, alpha))>>
         IN  [ critical_values |-> critical_values,
               p_value |-> FSub(One, Cdf(test_stat)),
               reject_null |-> FGt(test_stat, critical_values[1]) ]

one_sample_mean_test(sample_mean, sample_size, null_mean, alpha, test_type, population_std, sample_std) ==
    LET std == IF UsesZ(population_std) THEN population_std ELSE sample_std
        distribution_type == IF UsesZ(population_std) THEN "z" ELSE "t"
        df == IF UsesZ(population_std) THEN None ELSE F((sample_size - 1) * 1000)
    IN  IF ~UsesZ(population_std) /\ MissingStd(sample_std) THEN Raised("ValueError")
        ELSE IF sample_size < 0 THEN Raised("ValueError")
        ELSE IF sample_size = 0 THEN Raised("ZeroDivisionError")
        ELSE LET std_error == StandardError(std, sample_size)
             IN  IF IsZero(std_error) THEN Raised("ZeroDivisionError")
                 ELSE LET test_stat == Tenths(FDiv(FSub(sample_mean, null_mean), std_error))
                          d == Decide(test_stat, alpha, test_type, df)
                      IN  Returned([ test_statistic |-> test_stat,
                                     critical_values |-> d.critical_values,
                                     p_value |-> d.p_value,
                                     alpha |-> alpha,
                                     reject_null |-> d.reject_null,
                                     distribution_type |-> distribution_type,
                                     degrees_of_freedom |-> df,
                                     standard_error |-> std_error,
                                     test_type |-> test_type ])

\* A variance taken from the sample proportion.
SampleVariance(sample_proportion, null_proportion) ==
    FMul(sample_proportion, FSub(F(1000), sample_proportion))

\* Line 450: the variance under the null hypothesis, p0 (1 - p0).
NullVariance(sample_proportion, null_proportion) ==
    FMul(null_proportion, FSub(F(1000), null_proportion))

one_sample_proportion_test(sample_proportion, sample_size, null_proportion, alpha, test_type) ==
    LET np0 == FTimes(sample_size, null_proportion)
        nq0 == FTimes(sample_size, FSub(F(1000), null_proportion))
        pq == NullVariance(sample_proportion, null_proportion)
    IN  IF sample_size = 0 THEN Raised("ZeroDivisionError")
        ELSE IF FLt(FOver(pq, sample_size), F(0)) THEN Raised("ValueError")
        ELSE LET std_error == FSqrt(FOver(pq, sample_size))
             IN  IF IsZero(std_error) THEN Raised("ZeroDivisionError")
                 ELSE LET z_stat == Tenths(FDiv(FSub(sample_proportion, null_proportion),
                                                std_error))
                          d == Decide(z_stat, alpha, test_type, None)
                      IN  Returned([ test_statistic |-> z_stat,
                                     critical_values |-> d.critical_values,
                                     p_value |-> d.p_value,
                                     alpha |-> alpha,
                                     reject_null |-> d.reject_null,
                                     standard_error |-> std_error,
                                     test_type |-> test_type,
                                     sample_proportion |-> sample_proportion,
                                     sample_size |-> sample_size,
                                     null_proportion |-> null_proportion,
                                     warning |-> ApproximationWarning(np0, nq0) ])

\* Lines 193-204: pooled variance, standard error and degrees of freedom.
PooledVariance(sample1_size, sample1_std, sample2_size, sample2_std) ==
    FOver(FAdd(FTimes(sample1_size - 1, FMul(sample1_std, sample1_std)),
               FTimes(sample2_size - 1, FMul(sample2_std, sample2_std))),
          sample1_size + sample2_size - 2)

\* Lines 206-211: Welch's degrees of freedom from the two variances of the
\* sample means.
WelchDf(v1, sample1_size, v2, sample2_size) ==
    LET numerator == FMul(FAdd(v1, v2), FAdd(v1, v2))
        denominator == FAdd(FOver(FMul(v1, v1), sample1_size - 1),
                            FOver(FMul(v2, v2), sample2_size - 1))
    IN  [numerator |-> numerator, denominator |-> denominator]

\* A local name that no assignment has bound: pooled_var on Welch's path.
Unbound == [k |-> "unbound", v |-> 0]

\* A result entry that reads pooled_var whatever the path.
ReadsPooledVar(equal_variances, pooled_var) == pooled_var

\* Line 274: pooled_var if equal_variances else None; the conditional
\* expression evaluates pooled_var only when equal_variances holds.
PooledVarianceEntry(equal_variances, pooled_var) ==
    IF equal_variances THEN pooled_var ELSE None

\* The result of two_sample_mean_test once standard error and degrees of
\* freedom are known; reading an unbound local raises UnboundLocalError.
TwoSampleMeanResult(sample1_mean, sample2_mean, std_error, df, alpha, test_type, equal_variances, pooled_var) ==
    IF IsZero(std_error) THEN Raised("ZeroDivisionError")
    ELSE IF PooledVarianceEntry(equal_variances, pooled_var) = Unbound
    THEN Raised("UnboundLocalError")
    ELSE LET t_stat == Tenths(FDiv(FSub(sample1_mean, sample2_mean), std_error))
             d == Decide(t_stat, alpha, test_type, df)
         IN  Returned([ test_statistic |-> t_stat,
                        critical_values |-> d.critical_values,
                        p_value |-> d.p_value,
                        alpha |-> alpha,
                        reject_null |-> d.reject_null,
                        degrees_of_freedom |-> df,
                        standard_error |-> std_error,
                        test_type |-> test_type,
                        equal_variances |-> equal_variances,
                        pooled_variance |->
                            PooledVarianceEntry(equal_variances, pooled_var) ])

two_sample_mean_test(sample1_mean, sample1_size, sample1_std, sample2_mean, sample2_size, sample2_std, alpha, test_type, equal_variances) ==
    IF equal_variances
    THEN IF sample1_size + sample2_size - 2 = 0 THEN Raised("ZeroDivisionError")
         ELSE LET pooled_var == PooledVariance(sample1_size, sample1_std,
                                               sample2_size, sample2_std)
              IN  IF FLt(pooled_var, F(0)) THEN Raised("ValueError")
                  ELSE IF sample1_size = 0 \/ sample2_size = 0
                  THEN Raised("ZeroDivisionError")
                  ELSE LET inverse == FAdd(FOver(F(1000), sample1_size),
                                           FOver(F(1000), sample2_size))
                       IN  IF FLt(inverse, F(0)) THEN Raised("ValueError")
                           ELSE TwoSampleMeanResult(sample1_mean, sample2_mean,
                                    FMul(FSqrt(pooled_var), FSqrt(inverse)),
                                    F((sample1_size + sample2_size - 2) * 1000),
                                    alpha, test_type, equal_variances, pooled_var)
    ELSE IF sample1_size = 0 \/ sample2_size = 0 THEN Raised("ZeroDivisionError")
         ELSE LET v1 == FOver(FMul(sample1_std, sample1_std), sample1_size)
                  v2 == FOver(FMul(sample2_std, sample2_std), sample2_size)
                  w == WelchDf(v1, sample1_size, v2, sample2_size)
              IN  IF FLt(FAdd(v1, v2), F(0)) THEN Raised("ValueError")
                  ELSE IF sample1_size = 1 \/ sample2_size = 1
                  THEN Raised("ZeroDivisionError")
                  ELSE IF IsZero(w.denominator) THEN Raised("ZeroDivisionError")
                  ELSE TwoSampleMeanResult(sample1_mean, sample2_mean,
                           FSqrt(FAdd(v1, v2)),
                           FDiv(w.numerator, w.denominator),
                           alpha, test_type, equal_variances, Unbound)

\* A check of the first sample only.
FirstSampleWarning(sample1_size, sample2_size, p_pooled, q_pooled) ==
    IF /\ FGe(FTimes(sample1_size, p_pooled), F(5000))
       /\ FGe(FTimes(sample1_size, q_pooled), F(5000))
    THEN "None"
    ELSE "Warning: Normal approximation conditions not met"

\* Lines 316-326: the warning of the two-sample proportion test.
PooledWarning(sample1_size, sample2_size, p_pooled, q_pooled) ==
    IF /\ FGe(FTimes(sample1_size, p_pooled), F(5000))
       /\ FGe(FTimes(sample1_size, q_pooled), F(5000))
       /\ FGe(FTimes(sample2_size, p_pooled), F(5000))
       /\ FGe(FTimes(sample2_size, q_pooled), F(5000))
    THEN "None"
    ELSE "Warning: Normal approximation conditions not met"

\* int / int as a float in thousandths (d # 0).
IntRatio(n, d) == F(Trunc(n * 1000, d))

two_sample_proportion_test(sample1_successes, sample1_size, sample2_successes, sample2_size, alpha, test_type) ==
    IF sample1_size = 0 \/ sample2_size = 0 \/ sample1_size + sample2_size = 0
    THEN Raised("ZeroDivisionError")
    ELSE LET p1_hat == IntRatio(sample1_successes, sample1_size)
             p2_hat == IntRatio(sample2_successes, sample2_size)
             p_pooled == IntRatio(sample1_successes + sample2_successes,
                                  sample1_size + sample2_size)
             q_pooled == FSub(F(1000), p_pooled)
             radicand == FMul(FMul(p_pooled, q_pooled),
                              FAdd(FOver(F(1000), sample1_size),
                                   FOver(F(1000), sample2_size)))
         IN  IF FLt(radicand, F(0)) THEN Raised("ValueError")
             ELSE IF IsZero(FSqrt(radicand)) THEN Raised("ZeroDivisionError")
             ELSE LET std_error == FSqrt(radicand)
                      z_stat == Tenths(FDiv(FSub(p1_hat, p2_hat), std_error))
                      d == Decide(z_stat, alpha, test_type, None)
                  IN  Returned([ test_statistic |-> z_stat,
                                 critical_values |-> d.critical_values,
                                 p_value |-> d.p_value,
                                 alpha |-> alpha,
                                 reject_null |-> d.reject_null,
                                 standard_error |-> std_error,
                                 test_type |-> test_type,
                                 sample1_proportion |-> p1_hat,
                                 sample2_proportion |-> p2_hat,
                                 pooled_proportion |-> p_pooled,
                                 warning |-> PooledWarning(sample1_size, sample2_size,
                                                           p_pooled, q_pooled) ])

(***************************************************************************)
(* /api/statistics/hypothesis-testing                                      *)
(***************************************************************************)
TailTypes == {"two-tailed", "left-tailed", "right-tailed"}

\* data.get('equal_variances', True), then bool(...).
EqualVariances(data) == data.equal_variances # "false"

hypothesis_testing_calculations(data) ==
    LET test_type == data.test_type
        alpha == data.alpha
        tail_type == data.tail_type
    IN  IF test_type = "None" \/ IsNone(alpha) \/ tail_type = "None"
        THEN Reject("test_type, alpha, and tail_type are required")
        ELSE IF ~Between(F(0), alpha, One)
        THEN Reject("alpha must be between 0 and 1")
        ELSE IF tail_type \notin TailTypes
        THEN Reject("tail_type must be two-tailed, left-tailed, or right-tailed")
        ELSE IF test_type = "one_sample_mean"
        THEN IF IsNone(data.sample_mean) \/ IsNone(data.sample_size) \/ IsNone(data.null_mean)
             THEN Reject("sample_mean, sample_size, and null_mean are required")
             ELSE IF IsNone(data.population_std) /\ IsNone(data.sample_std)
             THEN Reject("Either population_std or sample_std must be provided")
             ELSE LET args == [ sample_mean |-> ToFloat(data.sample_mean),
                                sample_size |-> ToInt(data.sample_size),
                                null_mean |-> ToFloat(data.null_mean),
                                alpha |-> ToFloat(alpha),
                                test_type |-> tail_type,
                                population_std |-> ToFloat(data.population_std),
                                sample_std |-> ToFloat(data.sample_std) ]
                  IN  Answer("one_sample_mean_test", args,
                             one_sample_mean_test(args.sample_mean, args.sample_size,
                                 args.null_mean, args.alpha, args.test_type,
                                 args.population_std, args.sample_std),
                             Decimals(data))
        ELSE IF test_type = "one_sample_proportion"
        THEN IF \/ IsNone(data.sample_proportion)
                \/ IsNone(data.sample_size)
                \/ IsNone(data.null_proportion)
             THEN Reject("sample_proportion, sample_size, and null_proportion are required")
             ELSE LET args == [ sample_proportion |-> ToFloat(data.sample_proportion),
                                sample_size |-> ToInt(data.sample_size),
                                null_proportion |-> ToFloat(data.null_proportion),
                                alpha |-> ToFloat(alpha),
                                test_type |-> tail_type ]
                  IN  Answer("one_sample_proportion_test", args,
                             one_sample_proportion_test(args.sample_proportion,
                                 args.sample_size, args.null_proportion, args.alpha,
                                 args.test_type),
                             Decimals(data))
        ELSE IF test_type = "two_sample_mean"
        THEN IF \/ IsNone(data.sample1_mean) \/ IsNone(data.sample1_size)
                \/ IsNone(data.sample1_std) \/ IsNone(data.sample2_mean)
                \/ IsNone(data.sample2_size) \/ IsNone(data.sample2_std)
             THEN Reject("All fields required")
             ELSE LET args == [ sample1_mean |-> ToFloat(data.sample1_mean),
                                sample1_size |-> ToInt(data.sample1_size),
                                sample1_std |-> ToFloat(data.sample1_std),
                                sample2_mean |-> ToFloat(data.sample2_mean),
                                sample2_size |-> ToInt(data.sample2_size),
                                sample2_std |-> ToFloat(data.sample2_std),
                                alpha |-> ToFloat(alpha),
                                test_type |-> tail_type,
                                equal_variances |-> EqualVariances(data) ]
                  IN  Answer("two_sample_mean_test", args,
                             two_sample_mean_test(args.sample1_mean, args.sample1_size,
                                 args.sample1_std, args.sample2_mean, args.sample2_size,
                                 args.sample2_std, args.alpha, args.test_type,
                                 args.equal_variances),
                             Decimals(data))
        ELSE IF test_type = "two_sample_proportion"
        THEN IF \/ IsNone(data.sample1_successes) \/ IsNone(data.sample1_size)
                \/ IsNone(data.sample2_successes) \/ IsNone(data.sample2_size)
             THEN Reject("All fields required")
             ELSE LET args == [ sample1_successes |-> ToInt(data.sample1_successes),
                                sample1_size |-> ToInt(data.sample1_size),
                                sample2_successes |-> ToInt(data.sample2_successes),
                                sample2_size |-> ToInt(data.sample2_size),
                                alpha |-> ToFloat(alpha),
                                test_type |-> tail_type ]
                  IN  Answer("two_sample_proportion_test", args,
                             two_sample_proportion_test(args.sample1_successes,
                                 args.sample1_size, args.sample2_successes,
                                 args.sample2_size, args.alpha, args.test_type),
                             Decimals(data))
        ELSE Reject("Invalid test_type")

(***************************************************************************)
(* Console: hypothesis_testing_menu                                        *)
(***************************************************************************)
\* get_tail_type: the first entry among '1', '2', '3'.
TailChoiceOk(c) == c \in {"1", "2", "3"}

get_tail_type(entries) == FirstAccepted({i \in DOMAIN entries : TailChoiceOk(entries[i])})

TailOfChoice(c) ==
    IF c = "1" THEN "two-tailed" ELSE IF c = "2" THEN "left-tailed" ELSE "right-tailed"

hypothesis_testing_menu(choice, typed) ==
    LET alpha == Entry(typed.alpha, get_alpha(typed.alpha))
        test_type == TailOfChoice(Entry(typed.tail, get_tail_type(typed.tail)))
        size1 == Entry(typed.size1, get_positive_int(typed.size1))
        size2 == Entry(typed.size2, get_positive_int(typed.size2))
        std1 == Entry(typed.std1, get_positive_float(typed.std1))
        std2 == Entry(typed.std2, get_positive_float(typed.std2))
        prop1 == Entry(typed.prop1, get_proportion(typed.prop1))
        prop2 == Entry(typed.prop2, get_proportion(typed.prop2))
        count1 == Entry(typed.count1, get_positive_int(typed.count1))
        count2 == Entry(typed.count2, get_positive_int(typed.count2))
    IN  IF choice = "1"
        THEN LET args == [ sample_mean |-> typed.mean1,
                           sample_size |-> size1,
                           null_mean |-> typed.mean2,
                           alpha |-> alpha,
                           test_type |-> test_type,
                           population_std |-> IF typed.yes THEN std1 ELSE None,
                           sample_std |-> IF typed.yes THEN None ELSE std1 ]
             IN  ConsoleCall("one_sample_mean_test", args,
                     one_sample_mean_test(args.sample_mean, args.sample_size,
                         args.null_mean, args.alpha, args.test_type,
                         args.population_std, args.sample_std))
        ELSE IF choice = "2"
        THEN LET args == [ sample_proportion |-> prop1,
                           sample_size |-> size1,
                           null_proportion |-> prop2,
                           alpha |-> alpha,
                           test_type |-> test_type ]
             IN  ConsoleCall("one_sample_proportion_test", args,
                     one_sample_proportion_test(args.sample_proportion, args.sample_size,
                         args.null_proportion, args.alpha, args.test_type))
        ELSE IF choice = "3"
        THEN LET args == [ sample1_mean |-> typed.mean1,
                           sample1_size |-> size1,
                           sample1_std |-> std1,
                           sample2_mean |-> typed.mean2,
                           sample2_size |-> size2,
                           sample2_std |-> std2,
                           alpha |-> alpha,
                           test_type |-> test_type,
                           equal_variances |-> typed.yes ]
             IN  ConsoleCall("two_sample_mean_test", args,
                     two_sample_mean_test(args.sample1_mean, args.sample1_size,
                         args.sample1_std, args.sample2_mean, args.sample2_size,
                         args.sample2_std, args.alpha, args.test_type,
                         args.equal_variances))
        ELSE IF choice = "4"
        THEN LET args == [ sample1_successes |-> count1,
                           sample1_size |-> size1,
                           sample2_successes |-> count2,
                           sample2_size |-> size2,
                           alpha |-> alpha,
                           test_type |-> test_type ]
             IN  ConsoleCall("two_sample_proportion_test", args,
                     two_sample_proportion_test(args.sample1_successes, args.sample1_size,
                         args.sample2_successes, args.sample2_size, args.alpha,
                         args.test_type))
        ELSE Waiting

\* Every prompt the menu shows on this choice got an entry that passes;
\* alpha and the tail type are asked before the choice is looked at.
HTPromptsAnswered(choice, typed) ==
    /\ get_alpha(typed.alpha) # 0
    /\ get_tail_type(typed.tail) # 0
    /\ choice \in {"1", "2", "3", "4"} => get_positive_int(typed.size1) # 0
    /\ choice \in {"3", "4"} => get_positive_int(typed.size2) # 0
    /\ choice \in {"1", "3"} => get_positive_float(typed.std1) # 0
    /\ choice = "3" => get_positive_float(typed.std2) # 0
    /\ choice = "2" => get_proportion(typed.prop1) # 0 /\ get_proportion(typed.prop2) # 0
    /\ choice = "4" => get_positive_int(typed.count1) # 0 /\ get_positive_int(typed.count2) # 0

(***************************************************************************)
(* NormalDistribution.  A method maps the instance and its arguments to    *)
(* the instance after the call and the call's outcome.                     *)
(***************************************************************************)
\* __init__: the two attributes are stored as given.
NormalDistribution(mean, std_dev) ==
    [exists |-> TRUE, mean |-> mean, std_dev |-> std_dev]

\* A method's effect: the instance it leaves and what the call did.
Effect(self, o) == [self |-> self, outcome |-> o]

\* The deviation taken from x to the mean: (self.mean - x) / self.std_dev.
ZScoreReversed(self, x_value) == FDiv(FSub(self.mean, x_value), self.std_dev)

\* (x - self.mean) / self.std_dev, std_dev # 0.
ZScore(self, x_value) == FDiv(FSub(x_value, self.mean), self.std_dev)

\* A probability in millionths as a percentage in thousandths.
Percentage(probability) ==
    IF IsNum(probability) THEN F(probability.v \div 10) ELSE probability

\* The band of z itself, its sign kept.
SignedBand(z_score) ==
    IF FLt(z_score, F(1000))
    THEN "Within 1 standard deviation of the mean (common)"
    ELSE IF FLt(z_score, F(2000))
    THEN "Within 2 standard deviations of the mean (fairly common)"
    ELSE IF FLt(z_score, F(3000))
    THEN "Within 3 standard deviations of the mean (uncommon)"
    ELSE "More than 3 standard deviations from the mean (very rare)"

\* Lines 46-53: the band of |z|.
Band(z_score) ==
    IF FLt(FAbs(z_score), F(1000))
    THEN "Within 1 standard deviation of the mean (common)"
    ELSE IF FLt(FAbs(z_score), F(2000))
    THEN "Within 2 standard deviations of the mean (fairly common)"
    ELSE IF FLt(FAbs(z_score), F(3000))
    THEN "Within 3 standard deviations of the mean (uncommon)"
    ELSE "More than 3 standard deviations from the mean (very rare)"

calculate_z_score(self, x_value) ==
    IF IsZero(self.std_dev) THEN Effect(self, Raised("ZeroDivisionError"))
    ELSE LET z_score == ZScore(self, x_value)
         IN  Effect(self, Returned([ z_score |-> z_score,
                                     interpretation |-> Band(z_score) ]))

\* The lower tail again.
LowerTail(cdf) == cdf

\* Line 79: 1 - stats.norm.cdf(z_score).
UpperTail(cdf) == FSub(One, cdf)

calculate_probability(self, x_value, comparison) ==
    IF IsZero(self.std_dev) THEN Effect(self, Raised("ZeroDivisionError"))
    ELSE LET z_score == ZScore(self, x_value)
             probability ==
                 IF comparison = "less_than" THEN norm_cdf(z_score)
                 ELSE IF comparison = "greater_than" THEN UpperTail(norm_cdf(z_score))
                 ELSE norm_cdf(z_score)
         IN  Effect(self, Returned([ probability |-> probability,
                                     z_score |-> z_score,
                                     percentage |-> Percentage(probability) ]))

\* The first bound as it was given.
FirstGiven(x1, x2) == x1

\* Lines 114-115: x1 after the swap, the lesser of the two bounds.
LesserBound(x1, x2) == IF FGt(x1, x2) THEN x2 ELSE x1

\* Lines 114-115: x2 after the swap.
GreaterBound(x1, x2) == IF FGt(x1, x2) THEN x1 ELSE x2

calculate_probability_between(self, x1, x2) ==
    LET lo == LesserBound(x1, x2)
        hi == GreaterBound(x1, x2)
    IN  IF IsZero(self.std_dev) THEN Effect(self, Raised("ZeroDivisionError"))
        ELSE LET z1 == ZScore(self, lo)
                 z2 == ZScore(self, hi)
                 probability == FSub(norm_cdf(z2), norm_cdf(z1))
             IN  Effect(self, Returned([ probability |-> probability,
                                         z_scores |-> <<z1, z2>>,
                                         percentage |-> Percentage(probability) ]))

\* percentile / 100, the percentile in thousandths and p in millionths.
PercentileFraction(percentile) ==
    IF IsNum(percentile) THEN F(percentile.v * 10) ELSE percentile

find_percentile(self, percentile) ==
    LET p == PercentileFraction(percentile)
        z_score == norm_ppf(p)
        x_value == FAdd(self.mean, FMul(z_score, self.std_dev))
    IN  Effect(self, Returned([ x_value |-> x_value,
                                z_score |-> z_score,
                                percentile |-> percentile ]))

find_critical_values(self, confidence_level) ==
    LET alpha == FSub(One, confidence_level)
        alpha_half == FOver(alpha, 2)
        z_lower == norm_ppf(alpha_half)
        z_upper == norm_ppf(FSub(One, alpha_half))
        x_lower == FAdd(self.mean, FMul(z_lower, self.std_dev))
        x_upper == FAdd(self.mean, FMul(z_upper, self.std_dev))
    IN  Effect(self, Returned([ z_critical_lower |-> z_lower,
                                z_critical_upper |-> z_upper,
                                x_critical_lower |-> x_lower,
                                x_critical_upper |-> x_upper,
                                confidence_level |-> confidence_level ]))

\* An interval that narrows with k: mean -/+ std_dev / k.
WithinShrinking(self, k, percentage) ==
    [ lower |-> FSub(self.mean, FOver(self.std_dev, k)),
      upper |-> FAdd(self.mean, FOver(self.std_dev, k)),
      percentage |-> percentage ]

\* One interval of the empirical rule: mean -/+ k * std_dev.
Within(self, k, percentage) ==
    [ lower |-> FSub(self.mean, FTimes(k, self.std_dev)),
      upper |-> FAdd(self.mean, FTimes(k, self.std_dev)),
      percentage |-> percentage ]

empirical_rule(self) ==
    Effect(self, Returned([ one_std |-> Within(self, 1, F(68000)),
                            two_std |-> Within(self, 2, F(95000)),
                            three_std |-> Within(self, 3, F(99700)) ]))

\* The method of the given name applied to the instance.
NormalMethod(self, method, args) ==
    IF method = "calculate_z_score" THEN calculate_z_score(self, args.x_value)
    ELSE IF method = "calculate_probability"
    THEN calculate_probability(self, args.x_value, args.comparison)
    ELSE IF method = "calculate_probability_between"
    THEN calculate_probability_between(self, args.x1, args.x2)
    ELSE IF method = "find_percentile" THEN find_percentile(self, args.percentile)
    ELSE IF method = "find_critical_values"
    THEN find_critical_values(self, args.confidence_level)
    ELSE empirical_rule(self)

(***************************************************************************)
(* /api/statistics/normal-distribution                                     *)
(***************************************************************************)
\* A method call on the instance the handler has just built.
OnInstance(self, args) == [name \in DOMAIN args \cup {"self"} |->
                              IF name = "self" THEN self ELSE args[name]]

normal_distribution_calculations(data) ==
    LET calculation_type == data.calculation_type
        norm == NormalDistribution(ToFloat(data.mean), ToFloat(data.std_dev))
    IN  IF IsNone(data.mean) \/ IsNone(data.std_dev)
        THEN Reject("Mean and standard deviation are required")
        ELSE IF FLe(data.std_dev, F(0))
        THEN Reject("Standard deviation must be positive")
        ELSE IF calculation_type = "z_score"
        THEN IF IsNone(data.x_value)
             THEN Reject("x_value is required for z-score calculation")
             ELSE LET args == [x_value |-> ToFloat(data.x_value)]
                  IN  Answer("calculate_z_score", OnInstance(norm, args),
                             calculate_z_score(norm, args.x_value).outcome,
                             Decimals(data))
        ELSE IF calculation_type = "probability"
        THEN IF IsNone(data.x_value)
             THEN Reject("x_value is required for probability calculation")
             ELSE LET args == [ x_value |-> ToFloat(data.x_value),
                                comparison |-> IF data.comparison = "absent"
                                               THEN "less_than" ELSE data.comparison ]
                  IN  Answer("calculate_probability", OnInstance(norm, args),
                             calculate_probability(norm, args.x_value,
                                                   args.comparison).outcome,
                             Decimals(data))
        ELSE IF calculation_type = "probability_between"
        THEN IF IsNone(data.x1) \/ IsNone(data.x2)
             THEN Reject("x1 and x2 are required for between probability")
             ELSE LET args == [x1 |-> ToFloat(data.x1), x2 |-> ToFloat(data.x2)]
                  IN  Answer("calculate_probability_between", OnInstance(norm, args),
                             calculate_probability_between(norm, args.x1, args.x2).outcome,
                             Decimals(data))
        ELSE IF calculation_type = "percentile"
        THEN IF IsNone(data.percentile)
             THEN Reject("percentile is required")
             ELSE IF ~Between(F(0), data.percentile, F(100000))
             THEN Reject("percentile must be between 0 and 100")
             ELSE LET args == [percentile |-> ToFloat(data.percentile)]
                  IN  Answer("find_percentile", OnInstance(norm, args),
                             find_percentile(norm, args.percentile).outcome,
                             Decimals(data))
        ELSE IF calculation_type = "critical_values"
        THEN IF IsNone(data.confidence_level)
             THEN Reject("confidence_level is required")
             ELSE IF ~Between(F(0), data.confidence_level, One)
             THEN Reject("confidence_level must be between 0 and 1")
             ELSE LET args == [confidence_level |-> ToFloat(data.confidence_level)]
                  IN  Answer("find_critical_values", OnInstance(norm, args),
                             find_critical_values(norm, args.confidence_level).outcome,
                             Decimals(data))
        ELSE IF calculation_type = "empirical_rule"
        THEN Answer("empirical_rule", OnInstance(norm, << >>),
                    empirical_rule(norm).outcome, Decimals(data))
        ELSE Reject("Invalid calculation_type")

(***************************************************************************)
(* Console: normal_distribution_menu                                       *)
(***************************************************************************)
\* get_comparison_type: the first entry among '1', '2', '3'.
get_comparison_type(entries) == FirstAccepted({i \in DOMAIN entries : TailChoiceOk(entries[i])})

ComparisonOfChoice(c) ==
    IF c = "1" THEN "less_than" ELSE IF c = "2" THEN "greater_than" ELSE "equal_to"

normal_distribution_menu(choice, typed) ==
    LET std_dev == Entry(typed.std_dev, get_positive_float(typed.std_dev))
        norm == NormalDistribution(typed.mean, std_dev)
        comparison ==
            ComparisonOfChoice(Entry(typed.comparison, get_comparison_type(typed.comparison)))
        percentile == Entry(typed.percentile, get_percentile(typed.percentile))
        confidence_level ==
            Entry(typed.confidence_level, get_confidence_level(typed.confidence_level))
    IN  IF choice = "1"
        THEN ConsoleCall("calculate_z_score", OnInstance(norm, [x_value |-> typed.x1]),
                         calculate_z_score(norm, typed.x1).outcome)
        ELSE IF choice = "2"
        THEN ConsoleCall("calculate_probability",
                         OnInstance(norm, [x_value |-> typed.x1, comparison |-> comparison]),
                         calculate_probability(norm, typed.x1, comparison).outcome)
        ELSE IF choice = "3"
        THEN ConsoleCall("calculate_probability_between",
                         OnInstance(norm, [x1 |-> typed.x1, x2 |-> typed.x2]),
                         calculate_probability_between(norm, typed.x1, typed.x2).outcome)
        ELSE IF choice = "4"
        THEN ConsoleCall("find_percentile", OnInstance(norm, [percentile |-> percentile]),
                         find_percentile(norm, percentile).outcome)
        ELSE IF choice = "5"
        THEN ConsoleCall("find_critical_values",
                         OnInstance(norm, [confidence_level |-> confidence_level]),
                         find_critical_values(norm, confidence_level).outcome)
        ELSE IF choice = "6"
        THEN ConsoleCall("empirical_rule", OnInstance(norm, << >>),
                         empirical_rule(norm).outcome)
        ELSE Waiting

\* The standard deviation is asked before the choice; then the prompts of
\* the chosen calculation.
NormalPromptsAnswered(choice, typed) ==
    /\ get_positive_float(typed.std_dev) # 0
    /\ choice = "2" => get_comparison_type(typed.comparison) # 0
    /\ choice = "4" => get_percentile(typed.percentile) # 0
    /\ choice = "5" => get_confidence_level(typed.confidence_level) # 0

(***************************************************************************)
(* DescriptiveStats.  Values are floats in thousandths; the two variances  *)
(* are kept as exact ratios of integers (in millionths).  Of each measure  *)
(* the 'value' is carried; skewness and kurtosis are not.                  *)
(***************************************************************************)
RECURSIVE Insert(_, _)
Insert(x, sorted) ==
    IF sorted = << >> THEN <<x>>
    ELSE IF FLe(x, Head(sorted)) THEN <<x>> \o sorted
    ELSE <<Head(sorted)>> \o Insert(x, Tail(sorted))

\* np.sort: a sorted copy.
RECURSIVE Sort(_)
Sort(data) == IF data = << >> THEN << >> ELSE Insert(Head(data), Sort(Tail(data)))

\* __init__: np.array(data) copies the list, np.sort returns a new array.
DescriptiveStats(data) ==
    [exists |-> TRUE, data |-> data, n |-> Len(data), sorted_data |-> Sort(data)]

RECURSIVE Sum(_)
Sum(xs) == IF xs = << >> THEN 0 ELSE Head(xs) + Sum(Tail(xs))

\* The values of a dataset, in thousandths.
Values(data) == [i \in DOMAIN data |-> data[i].v]

\* np.mean
Mean(self) == IF self.n = 0 THEN NaN ELSE F(Trunc(Sum(Values(self.data)), self.n))

\* np.median
Median(self) ==
    IF self.n = 0 THEN NaN
    ELSE IF self.n % 2 = 1 THEN self.sorted_data[(self.n + 1) \div 2]
    ELSE FOver(FAdd(self.sorted_data[self.n \div 2],
                    self.sorted_data[self.n \div 2 + 1]), 2)

\* How often x occurs.
Count(self, x) == Cardinality({i \in DOMAIN self.data : self.data[i] = x})

\* stats.mode: the smallest of the most frequent values, and its count.
ModeResult(self) ==
    LET top == CHOOSE i \in DOMAIN self.data :
                   \A j \in DOMAIN self.data :
                       \/ Count(self, self.data[j]) < Count(self, self.data[i])
                       \/ /\ Count(self, self.data[j]) = Count(self, self.data[i])
                          /\ FLe(self.data[i], self.data[j])
    IN  [mode |-> self.data[top], count |-> Count(self, self.data[top])]

\* Lines 80-81: the mode only if it occurs more than once.
Mode(self) == IF ModeResult(self).count > 1 THEN ModeResult(self).mode ELSE None

\* np.var(data, ddof): the deviations from the mean, squared, summed and
\* divided by n - ddof; NaN when n - ddof <= 0.  A deviation is
\* (n * x - sum) / n; the deviations are summed in units of their common
\* divisor, which keeps the sum of squares small.
Variance(self, ddof) ==
    IF self.n - ddof <= 0 THEN NaN
    ELSE LET total == Sum(Values(self.data))
             deviations == [i \in DOMAIN self.data |-> self.n * self.data[i].v - total]
             unit == GCDOf(deviations)
             squares == [i \in DOMAIN self.data |->
                            (deviations[i] \div unit) * (deviations[i] \div unit)]
             denominator == self.n * self.n * (self.n - ddof)
         IN  IF unit = 0 THEN Ratio(0, denominator)
             ELSE RatioTimes(RatioTimes(Ratio(Sum(squares), denominator), unit), unit)

\* The lower of the two order statistics around the position, without
\* interpolation.
LowerOrderStatistic(self, percentile) ==
    self.sorted_data[((self.n - 1) * (percentile.v \div 100)) \div 1000 + 1]

\* np.percentile(data, percentile) for 0 <= percentile <= 100, by linear
\* interpolation between the order statistics around (n - 1) * p / 100.
Percentile(self, percentile) ==
    LET position == (self.n - 1) * (percentile.v \div 100)
        below == position \div 1000 + 1
        above == IF below < self.n THEN below + 1 ELSE below
        part == position % 1000
    IN  FAdd(self.sorted_data[below],
             F(Trunc((self.sorted_data[above].v - self.sorted_data[below].v) * part, 1000)))

PercentileInRange(percentile) == FLe(F(0), percentile) /\ FLe(percentile, F(100000))

_calculate_central_tendency(self) ==
    [ mean |-> [value |-> Mean(self)],
      median |-> [value |-> Median(self)],
      mode |-> [value |-> Mode(self)] ]

_calculate_dispersion(self) ==
    [ sample_variance |-> [value |-> Variance(self, 1)],
      sample_std_dev |-> [value |-> RatioRoot(Variance(self, 1))],
      population_variance |-> [value |-> Variance(self, 0)],
      population_std_dev |-> [value |-> RatioRoot(Variance(self, 0))],
      range |-> [value |-> FSub(self.sorted_data[self.n], self.sorted_data[1])] ]

_calculate_position(self) ==
    [ q1 |-> [value |-> Percentile(self, F(25000))],
      q2 |-> [value |-> Percentile(self, F(50000))],
      q3 |-> [value |-> Percentile(self, F(75000))] ]

_calculate_five_number_summary(self) ==
    [ minimum |-> self.sorted_data[1],
      q1 |-> Percentile(self, F(25000)),
      median |-> Median(self),
      q3 |-> Percentile(self, F(75000)),
      maximum |-> self.sorted_data[self.n],
      iqr |-> [value |-> FSub(Percentile(self, F(75000)), Percentile(self, F(25000)))] ]

_calculate_custom_percentile(self, percentile) ==
    [percentile |-> percentile, value |-> Percentile(self, percentile)]

\* The result of calculate_all_stats without a custom percentile.
AllStats(self) ==
    [ data_info |-> [ original_data |-> self.data,
                      sorted_data |-> self.sorted_data,
                      sample_size |-> self.n ],
      measures_of_central_tendency |-> _calculate_central_tendency(self),
      measures_of_dispersion |-> _calculate_dispersion(self),
      measures_of_position |-> _calculate_position(self),
      five_number_summary |-> _calculate_five_number_summary(self) ]

\* A mapping with one more key.
With(results, key, value) ==
    [name \in DOMAIN results \cup {key} |-> IF name = key THEN value ELSE results[name]]

\* calculate_all_stats, were it to sort self.data in place.
SortsInPlace(self, custom_percentile) ==
    LET sorted == [self EXCEPT !.data = self.sorted_data]
    IN  IF self.n = 0 THEN Effect(sorted, Raised("IndexError"))
        ELSE IF IsNone(custom_percentile) THEN Effect(sorted, Returned(AllStats(sorted)))
        ELSE IF ~PercentileInRange(custom_percentile)
        THEN Effect(sorted, Raised("ValueError"))
        ELSE Effect(sorted, Returned(With(AllStats(sorted), "custom_percentile",
                        _calculate_custom_percentile(sorted, custom_percentile))))

\* On an empty dataset line 70 indexes sorted_data[-1]: IndexError.  A
\* custom percentile outside [0, 100] makes np.percentile raise ValueError.
calculate_all_stats(self, custom_percentile) ==
    IF self.n = 0 THEN Effect(self, Raised("IndexError"))
    ELSE IF IsNone(custom_percentile) THEN Effect(self, Returned(AllStats(self)))
    ELSE IF ~PercentileInRange(custom_percentile) THEN Effect(self, Raised("ValueError"))
    ELSE Effect(self, Returned(With(AllStats(self), "custom_percentile",
                    _calculate_custom_percentile(self, custom_percentile))))

\* numpy divides by zero without raising: for n = 0 the result is NaN.
calculate_standard_error(self, confidence_level) ==
    LET sample_std == RatioRoot(Variance(self, 1))
        std_error == IF self.n = 0 THEN NaN ELSE FDiv(sample_std, SqrtInt(self.n))
        alpha == FSub(One, confidence_level)
        t_critical == t_ppf(FSub(One, FOver(alpha, 2)), F((self.n - 1) * 1000))
    IN  Effect(self, Returned([ standard_error |-> [value |-> std_error],
                                margin_of_error |-> [value |-> FMul(t_critical, std_error)] ]))

\* The method of the given name applied to the instance.
StatsMethod(self, method, args) ==
    IF method = "calculate_all_stats"
    THEN calculate_all_stats(self, args.custom_percentile)
    ELSE calculate_standard_error(self, args.confidence_level)

(***************************************************************************)
(* /api/statistics/descriptive                                             *)
(***************************************************************************)
\* A JSON string that is not a number.
Text == [k |-> "text", v |-> 0]

\* float(x) raises ValueError on such a string and TypeError on null.
Numeric(x) == IsNum(x)

\* The result of calculate_all_stats with the standard error analysis added
\* (lines 66-69 of the route, 89-92 of the menu).
WithStandardError(stats, o, include, confidence_level) ==
    IF ~include \/ ~HasResult(o) THEN o
    ELSE Returned(With(o.result, "standard_error_analysis",
                       calculate_standard_error(stats, confidence_level).outcome.result))

calculate_descriptive_stats(data) ==
    LET dataset == data.data
        confidence_level ==
            IF IsNone(data.confidence_level) THEN F(950000) ELSE data.confidence_level
    IN  IF dataset.kind # "list" \/ dataset.items = << >>
        THEN Reject("Invalid dataset provided")
        ELSE IF \E i \in DOMAIN dataset.items : ~Numeric(dataset.items[i])
        THEN Reject("All data values must be numeric")
        ELSE LET stats == DescriptiveStats(dataset.items)
                 args == [ custom_percentile |-> data.custom_percentile,
                           include_standard_error |-> data.include_standard_error,
                           confidence_level |-> confidence_level ]
             IN  Answer("calculate_all_stats", OnInstance(stats, args),
                        WithStandardError(stats,
                            calculate_all_stats(stats, args.custom_percentile).outcome,
                            args.include_standard_error, args.confidence_level),
                        Decimals(data))

(***************************************************************************)
(* Console: get_dataset and descriptive_statistics_menu                    *)
(***************************************************************************)
\* One round of get_dataset: the single line (its tokens), then the lines
\* typed one per prompt.  The single line counts if it is not empty, every
\* token parses and there are at least 2; else the lines that parse count
\* if there are at least 2; else the function calls itself.
IsNumber(x) == IsNum(x)

Parsed(round) ==
    IF /\ round.single # << >>
       /\ \A i \in DOMAIN round.single : IsNumber(round.single[i])
       /\ Len(round.single) >= 2
    THEN round.single
    ELSE SelectSeq(round.lines, IsNumber)

RECURSIVE get_dataset(_)
get_dataset(rounds) ==
    IF rounds = << >> THEN << >>
    ELSE IF Len(Parsed(Head(rounds))) >= 2 THEN Parsed(Head(rounds))
    ELSE get_dataset(Tail(rounds))

\* get_custom_percentile: None unless the user says yes.
get_custom_percentile(yes, entries) ==
    IF yes THEN Entry(entries, get_percentile(entries)) ELSE None

descriptive_statistics_menu(typed) ==
    LET data == get_dataset(typed.rounds)
        custom_percentile == get_custom_percentile(typed.custom, typed.percentile)
        stats == DescriptiveStats(data)
        args == [ custom_percentile |-> custom_percentile,
                  include_standard_error |-> typed.include_se,
                  confidence_level |-> typed.confidence_level ]
    IN  ConsoleCall("calculate_all_stats", OnInstance(stats, args),
                    WithStandardError(stats,
                        calculate_all_stats(stats, custom_percentile).outcome,
                        typed.include_se, typed.confidence_level))

\* get_dataset has returned and the percentile prompt, if shown, is answered.
StatsPromptsAnswered(typed) ==
    /\ get_dataset(typed.rounds) # << >>
    /\ typed.custom => get_percentile(typed.percentile) # 0

(***************************************************************************)
(* Inputs.  A caller of the library may pass any number; the sets hold     *)
(* values on both sides of every test the code makes.                      *)
(***************************************************************************)
\* Largest of the small sample sizes.
MaxN == 4

\* A whole number as a float.
U(x) == F(x * 1000)

SampleSizes == (-1..MaxN) \cup {16}

SampleMeans == {U(-2), U(10)}

ConfidenceLevels == {F(900000), F(950000), F(990000)}

AnyLevels == ConfidenceLevels \cup {None, F(0), F(1500000)}

Stds == {U(-2), U(0), U(1), U(2)}

OptionalStds == Stds \cup {None}

Proportions == {F(0), F(100), F(500), F(900), F(1000)}

AnyProportions == Proportions \cup {F(-100), F(1500)}

MarginErrors == {F(0), F(30), F(500)}

DecimalsSent == {None, U(2)}

\* A JSON body of /confidence-intervals: the fields the handler reads.
NoCIFields ==
    [ interval_type |-> "None", confidence_level |-> None, decimals |-> None,
      sample_mean |-> None, sample_size |-> None, population_std |-> None,
      sample_std |-> None, sample_proportion |-> None, margin_error |-> None,
      estimated_proportion |-> None ]

CIBodies ==
    {[NoCIFields EXCEPT !.interval_type = t, !.confidence_level = c] :
        t \in {"None", "median"}, c \in AnyLevels}
    \cup
    {[NoCIFields EXCEPT !.interval_type = "mean", !.confidence_level = c, !.decimals = d,
                        !.sample_mean = m, !.sample_size = n,
                        !.population_std = p, !.sample_std = s] :
        c \in AnyLevels, d \in DecimalsSent, m \in SampleMeans \cup {None},
        n \in {U(k) : k \in SampleSizes} \cup {None},
        p \in OptionalStds, s \in OptionalStds}
    \cup
    {[NoCIFields EXCEPT !.interval_type = "proportion", !.confidence_level = c,
                        !.decimals = d, !.sample_proportion = p, !.sample_size = n] :
        c \in AnyLevels, d \in DecimalsSent, p \in AnyProportions \cup {None},
        n \in {U(k) : k \in SampleSizes} \cup {None}}
    \cup
    {[NoCIFields EXCEPT !.interval_type = "sample_size_mean", !.confidence_level = c,
                        !.decimals = d, !.margin_error = e, !.population_std = p] :
        c \in AnyLevels, d \in DecimalsSent, e \in MarginErrors \cup {None},
        p \in OptionalStds}
    \cup
    {[NoCIFields EXCEPT !.interval_type = "sample_size_proportion",
                        !.confidence_level = c, !.decimals = d, !.margin_error = e,
                        !.estimated_proportion = p] :
        c \in AnyLevels, d \in DecimalsSent, e \in MarginErrors \cup {None},
        p \in Proportions \cup {None}}

\* What the console user types at the prompts of confidence_intervals_menu.
NoCITyped ==
    [ sample_mean |-> U(10), sample_size |-> <<1>>, confidence_level |-> <<F(950000)>>,
      yes |-> FALSE, std |-> <<U(1)>>, margin_error |-> <<F(500)>>,
      proportion |-> <<F(500)>> ]

TypedSizes == Typed({0, 1, MaxN})

TypedLevels == Typed({F(1500000), F(900000), F(950000)})

TypedStds == Typed({U(-2), U(0), U(2)})

TypedMargins == Typed({F(0), F(30), F(500)})

TypedProportions == Typed({F(1500), F(500), F(900)})

CITyped(choice) ==
    IF choice = "1"
    THEN {[NoCITyped EXCEPT !.sample_mean = m, !.sample_size = n, !.confidence_level = c,
                            !.yes = y, !.std = s] :
             m \in SampleMeans, n \in TypedSizes, c \in TypedLevels, y \in BOOLEAN,
             s \in TypedStds}
    ELSE IF choice = "2"
    THEN {[NoCITyped EXCEPT !.proportion = p, !.sample_size = n, !.confidence_level = c] :
             p \in TypedProportions, n \in TypedSizes, c \in TypedLevels}
    ELSE IF choice = "3"
    THEN {[NoCITyped EXCEPT !.margin_error = e, !.confidence_level = c, !.std = s] :
             e \in TypedMargins, c \in TypedLevels, s \in TypedStds}
    ELSE IF choice = "4"
    THEN {[NoCITyped EXCEPT !.margin_error = e, !.confidence_level = c, !.yes = y,
                            !.proportion = p] :
             e \in TypedMargins, c \in TypedLevels, y \in BOOLEAN,
             p \in TypedProportions}
    ELSE {NoCITyped}

Alphas == {F(10000), F(50000), F(100000)}

AnyAlphas == Alphas \cup {F(0), F(1500000)}

TestMeans == {U(10), U(11)}

NullMeans == {U(10)}

NullProportions == {F(-100), F(0), F(500), F(1000)}

PairMeans == {U(-3), U(0), U(1)}

PairSizes == 0..3

PairStds == {U(0), U(1), U(2)}

Successes == 0..2

\* Successes and size of a sample: the small ones, and two samples of 20
\* whose expected counts reach 5.
ProportionSamples ==
    (Successes \X PairSizes) \cup {<<10, 20>>, <<4, 20>>}

\* A JSON body of /hypothesis-testing: the fields the handler reads.
\* The arguments of the direct calls of one_sample_mean_test: the small
\* values above, and the z-test of 105 against 100 with n = 36, sigma = 15.
MeanTestArguments ==
    {[ sample_mean |-> m, sample_size |-> n, null_mean |-> m0, alpha |-> a,
       test_type |-> l, population_std |-> p, sample_std |-> s ] :
        m \in TestMeans, n \in SampleSizes, m0 \in NullMeans, a \in AnyAlphas,
        l \in TailTypes, p \in OptionalStds, s \in OptionalStds}
    \cup
    {[ sample_mean |-> U(105), sample_size |-> 36, null_mean |-> U(100),
       alpha |-> F(50000), test_type |-> l, population_std |-> U(15),
       sample_std |-> None ] : l \in TailTypes}

NoHTFields ==
    [ test_type |-> "None", alpha |-> None, tail_type |-> "None", decimals |-> None,
      sample_mean |-> None, sample_size |-> None, null_mean |-> None,
      population_std |-> None, sample_std |-> None, sample_proportion |-> None,
      null_proportion |-> None, sample1_mean |-> None, sample1_size |-> None,
      sample1_std |-> None, sample2_mean |-> None, sample2_size |-> None,
      sample2_std |-> None, equal_variances |-> "absent",
      sample1_successes |-> None, sample2_successes |-> None ]

\* Bodies that differ in the three fields every test needs.
HTHeads ==
    {[NoHTFields EXCEPT !.test_type = t, !.alpha = a, !.tail_type = l] :
        t \in {"None", "one_sample_mean", "anova"},
        a \in AnyAlphas \cup {None},
        l \in {"None", "both", "two-tailed"}}

HTBodies ==
    HTHeads
    \cup
    {[NoHTFields EXCEPT !.test_type = "one_sample_mean", !.alpha = a, !.tail_type = l,
                        !.sample_mean = m, !.sample_size = n, !.null_mean = m0,
                        !.population_std = p, !.sample_std = s] :
        a \in Alphas, l \in TailTypes, m \in TestMeans,
        n \in {U(k) : k \in SampleSizes} \cup {None}, m0 \in NullMeans,
        p \in OptionalStds, s \in OptionalStds}
    \cup
    {[NoHTFields EXCEPT !.test_type = "one_sample_proportion", !.alpha = a,
                        !.tail_type = l, !.decimals = d, !.sample_proportion = p,
                        !.sample_size = n, !.null_proportion = p0] :
        a \in Alphas, l \in TailTypes, d \in DecimalsSent, p \in Proportions,
        n \in {U(k) : k \in SampleSizes}, p0 \in NullProportions \cup {None}}
    \cup
    {[NoHTFields EXCEPT !.test_type = "two_sample_mean", !.alpha = a, !.tail_type = l,
                        !.sample1_mean = m, !.sample1_size = n1, !.sample1_std = s1,
                        !.sample2_mean = U(0), !.sample2_size = n2, !.sample2_std = s2,
                        !.equal_variances = e] :
        a \in Alphas, l \in TailTypes, m \in PairMeans,
        n1 \in {U(k) : k \in PairSizes}, s1 \in PairStds,
        n2 \in {U(k) : k \in PairSizes}, s2 \in PairStds \cup {None},
        e \in {"absent", "true", "false"}}
    \cup
    {[NoHTFields EXCEPT !.test_type = "two_sample_proportion", !.alpha = a,
                        !.tail_type = l, !.sample1_successes = x1, !.sample1_size = n1,
                        !.sample2_successes = x2, !.sample2_size = n2] :
        a \in Alphas, l \in TailTypes,
        x1 \in {U(k) : k \in Successes}, n1 \in {U(k) : k \in PairSizes},
        x2 \in {U(k) : k \in Successes} \cup {None}, n2 \in {U(k) : k \in PairSizes}}

\* What the console user types at the prompts of hypothesis_testing_menu.
NoHTTyped ==
    [ alpha |-> <<F(50000)>>, tail |-> <<"1">>, mean1 |-> U(11), mean2 |-> U(10),
      size1 |-> <<2>>, size2 |-> <<2>>, std1 |-> <<U(1)>>, std2 |-> <<U(1)>>,
      yes |-> TRUE, prop1 |-> <<F(500)>>, prop2 |-> <<F(500)>>,
      count1 |-> <<1>>, count2 |-> <<1>> ]

EnteredAlphas == {<<F(50000)>>, <<F(1500000), F(100000)>>, <<F(0)>>}

EnteredTails == {<<"1">>, <<"2">>, <<"0", "3">>}

EnteredSizes == {<<1>>, <<2>>, <<0, 3>>}

EnteredStds == {<<U(1)>>, <<U(0), U(2)>>, <<U(-2)>>}

EnteredProportions == {<<F(500)>>, <<F(1500), F(900)>>, <<F(0)>>}

HTTyped(choice) ==
    IF choice = "1"
    THEN {[NoHTTyped EXCEPT !.alpha = a, !.tail = l, !.mean1 = m, !.size1 = n,
                            !.yes = y, !.std1 = s] :
             a \in EnteredAlphas, l \in EnteredTails, m \in TestMeans,
             n \in Typed({0, 1, MaxN}), y \in BOOLEAN, s \in EnteredStds}
    ELSE IF choice = "2"
    THEN {[NoHTTyped EXCEPT !.alpha = a, !.tail = l, !.prop1 = p, !.size1 = n,
                            !.prop2 = p0] :
             a \in EnteredAlphas, l \in EnteredTails, p \in EnteredProportions,
             n \in Typed({0, 1, MaxN}), p0 \in EnteredProportions}
    ELSE IF choice = "3"
    THEN {[NoHTTyped EXCEPT !.alpha = a, !.tail = l, !.mean1 = m, !.mean2 = U(0),
                            !.size1 = n1, !.std1 = s1, !.size2 = n2, !.std2 = s2,
                            !.yes = y] :
             a \in EnteredAlphas, l \in EnteredTails, m \in PairMeans,
             n1 \in EnteredSizes, s1 \in EnteredStds, n2 \in EnteredSizes,
             s2 \in EnteredStds, y \in BOOLEAN}
    ELSE IF choice = "4"
    THEN {[NoHTTyped EXCEPT !.alpha = a, !.tail = l, !.count1 = x1, !.size1 = n1,
                            !.count2 = x2, !.size2 = n2] :
             a \in EnteredAlphas, l \in EnteredTails, x1 \in EnteredSizes,
             n1 \in EnteredSizes, x2 \in EnteredSizes, n2 \in EnteredSizes}
    ELSE {[NoHTTyped EXCEPT !.alpha = a, !.tail = l] :
             a \in EnteredAlphas, l \in EnteredTails}

(***************************************************************************)
(* Inputs of the two classes and their front ends                          *)
(***************************************************************************)
\* Longest dataset a library client builds an instance from.
MaxLen == 2

\* Longest dataset a front end receives.
MaxItems == 3

DistMeans == {U(0), U(10)}

DistStds == {U(-1), U(0), U(1), U(2)}

XValues == {U(-1), U(0), U(12)}

Comparisons == {"less_than", "greater_than", "equal_to"}

Percentiles == {F(5000), F(50000), F(97500)}

AnyPercentiles == Percentiles \cup {F(-5000), F(0), F(100000), F(150000)}

AnyDistLevels == ConfidenceLevels \cup {F(0), One, F(1500000)}

\* The calls a client can make on a NormalDistribution.
NormalCalls ==
    {[method |-> "calculate_z_score", args |-> [x_value |-> x]] : x \in XValues}
    \cup {[method |-> "calculate_probability", args |-> [x_value |-> x, comparison |-> c]] :
             x \in XValues, c \in Comparisons}
    \cup {[method |-> "calculate_probability_between", args |-> [x1 |-> x, x2 |-> y]] :
             x \in XValues, y \in XValues}
    \cup {[method |-> "find_percentile", args |-> [percentile |-> p]] :
             p \in AnyPercentiles}
    \cup {[method |-> "find_critical_values", args |-> [confidence_level |-> c]] :
             c \in AnyDistLevels}
    \cup {[method |-> "empirical_rule", args |-> << >>]}

\* The calls the second caller makes meanwhile: each method once.
OtherNormalCalls ==
    { [method |-> "calculate_z_score", args |-> [x_value |-> U(12)]],
      [method |-> "calculate_probability",
       args |-> [x_value |-> U(0), comparison |-> "greater_than"]],
      [method |-> "calculate_probability_between", args |-> [x1 |-> U(-1), x2 |-> U(12)]],
      [method |-> "find_percentile", args |-> [percentile |-> F(97500)]],
      [method |-> "find_critical_values", args |-> [confidence_level |-> F(900000)]],
      [method |-> "empirical_rule", args |-> << >>] }

DataValues == {U(1), U(2), U(4)}

\* Sequences over S of length at most n.
RECURSIVE SeqsUpTo(_, _)
SeqsUpTo(S, n) ==
    IF n = 0 THEN {<< >>}
    ELSE LET shorter == SeqsUpTo(S, n - 1)
         IN  shorter \cup {Append(s, x) : s \in shorter, x \in S}

\* The values of the datasets a library client builds an instance from.
ClientValues == {U(1), U(4)}

\* The datasets of the scenarios: 1 to 10, and one with two values that
\* occur twice each.
ScenarioDatasets ==
    { <<U(1), U(2), U(3), U(4), U(5), U(6), U(7), U(8), U(9), U(10)>>,
      <<U(4), U(1), U(4), U(1)>> }

ClientDatasets == SeqsUpTo(ClientValues, MaxLen) \cup ScenarioDatasets

CustomPercentiles == {None, F(50000), F(150000)}

\* The calls a client can make on a DescriptiveStats.
StatsCalls ==
    {[method |-> "calculate_all_stats", args |-> [custom_percentile |-> p]] :
        p \in CustomPercentiles}
    \cup {[method |-> "calculate_standard_error", args |-> [confidence_level |-> c]] :
             c \in {F(950000), F(1500000)}}

OtherStatsCalls ==
    { [method |-> "calculate_all_stats", args |-> [custom_percentile |-> None]],
      [method |-> "calculate_standard_error", args |-> [confidence_level |-> F(950000)]] }

\* A JSON body of /normal-distribution: the fields the handler reads.
NoDistFields ==
    [ mean |-> None, std_dev |-> None, calculation_type |-> "None", decimals |-> None,
      x_value |-> None, comparison |-> "absent", x1 |-> None, x2 |-> None,
      percentile |-> None, confidence_level |-> None ]

DistHeads ==
    {[NoDistFields EXCEPT !.mean = m, !.std_dev = s, !.calculation_type = t, !.decimals = d] :
        m \in DistMeans \cup {None}, s \in DistStds \cup {None},
        t \in {"None", "empirical_rule", "z_score", "mode"}, d \in DecimalsSent}

DistBodies ==
    {[h EXCEPT !.calculation_type = "z_score", !.x_value = x] :
        h \in DistHeads, x \in XValues}
    \cup {[h EXCEPT !.calculation_type = "probability", !.x_value = x, !.comparison = c] :
             h \in DistHeads, x \in {U(12), None}, c \in Comparisons \cup {"absent"}}
    \cup {[h EXCEPT !.calculation_type = "probability_between", !.x1 = x, !.x2 = y] :
             h \in DistHeads, x \in {U(12), None}, y \in {U(0), None}}
    \cup {[h EXCEPT !.calculation_type = "percentile", !.percentile = p] :
             h \in DistHeads, p \in AnyPercentiles \cup {None}}
    \cup {[h EXCEPT !.calculation_type = "critical_values", !.confidence_level = c] :
             h \in DistHeads, c \in AnyDistLevels \cup {None}}
    \cup DistHeads

\* What the console user types at the prompts of normal_distribution_menu.
NoDistTyped ==
    [ mean |-> U(0), std_dev |-> <<U(1)>>, x1 |-> U(0), x2 |-> U(0),
      comparison |-> <<"1">>, percentile |-> <<F(50000)>>,
      confidence_level |-> <<F(950000)>> ]

EnteredPercentiles == {<<F(50000)>>, <<F(150000), F(97500)>>, <<F(0)>>}

DistTyped(choice) ==
    LET heads == {[NoDistTyped EXCEPT !.mean = m, !.std_dev = s] :
                     m \in DistMeans, s \in EnteredStds}
    IN  IF choice = "1"
        THEN {[h EXCEPT !.x1 = x] : h \in heads, x \in XValues}
        ELSE IF choice = "2"
        THEN {[h EXCEPT !.x1 = x, !.comparison = c] :
                 h \in heads, x \in XValues, c \in EnteredTails}
        ELSE IF choice = "3"
        THEN {[h EXCEPT !.x1 = x, !.x2 = y] : h \in heads, x \in XValues, y \in XValues}
        ELSE IF choice = "4"
        THEN {[h EXCEPT !.percentile = p] : h \in heads, p \in EnteredPercentiles}
        ELSE IF choice = "5"
        THEN {[h EXCEPT !.confidence_level = c] : h \in heads, c \in TypedLevels}
        ELSE heads

\* A JSON body of /descriptive: 'data' is a list, something else, or absent.
JsonItems == DataValues \cup {Text, None}

StatsBodies ==
    {[ data |-> [kind |-> "list", items |-> items], custom_percentile |-> p,
       include_standard_error |-> e, confidence_level |-> c, decimals |-> d ] :
        items \in SeqsUpTo(JsonItems, MaxItems), p \in CustomPercentiles,
        e \in BOOLEAN, c \in {None}, d \in DecimalsSent}
    \cup
    {[ data |-> [kind |-> k, items |-> << >>], custom_percentile |-> None,
       include_standard_error |-> e, confidence_level |-> c, decimals |-> None ] :
        k \in {"text", "absent"}, e \in BOOLEAN, c \in {None, F(1500000)}}
    \cup
    {[ data |-> [kind |-> "list", items |-> items], custom_percentile |-> None,
       include_standard_error |-> TRUE, confidence_level |-> F(1500000),
       decimals |-> None ] :
        items \in SeqsUpTo(DataValues, MaxLen)}

\* What the console user types in descriptive_statistics_menu.
Tokens == {U(1), U(4), Text}

Rounds ==
    {[single |-> s, lines |-> l] :
        s \in SeqsUpTo(Tokens, 2), l \in SeqsUpTo(Tokens, 2)}

StatsTyped ==
    {[ rounds |-> r, custom |-> c, percentile |-> p, include_se |-> e,
       confidence_level |-> l ] :
        r \in {<<a>> : a \in Rounds}
              \cup {<<a, b>> : a \in {[single |-> <<U(1)>>, lines |-> <<Text, U(4)>>]},
                               b \in Rounds},
        c \in BOOLEAN, p \in EnteredPercentiles, e \in BOOLEAN,
        l \in {F(950000), F(1500000)}}

(***************************************************************************)
(* The calculators and their front ends.  The state is the last call made, *)
(* what it did, and the HTTP response if a route made it.                  *)
(***************************************************************************)
\* The second caller has made no call.
NoOther == [method |-> "none", args |-> << >>, outcome |-> NoOutcome]

\* A call is under way: it has begun and has not finished.
Running == [raised |-> "running", result |-> NoResult]

\* main_menu before its first prompt is answered.
MainMenu == [screen |-> "main_menu", choice |-> "none", new_decimals |-> None]

Init ==
    /\ call = NoCall
    /\ outcome = NoOutcome
    /\ response = NoResponse
    /\ norm_dist = NoInstance
    /\ stats_calc = NoInstance
    /\ other = NoOther
    /\ decimal_places = 4
    /\ menu = MainMenu

\* Nothing is being handled: the last answer has been taken.
Idle == call = NoCall /\ response = NoResponse

\* The caller takes the answer of the last call.
Return ==
    /\ ~Idle
    /\ outcome # Running
    /\ call' = NoCall
    /\ outcome' = NoOutcome
    /\ response' = NoResponse
    /\ other' = NoOther
    /\ UNCHANGED <<norm_dist, stats_calc, decimal_places, menu>>

\* A handler's effect on the state.
Does(r) ==
    /\ call' = r.call
    /\ outcome' = r.outcome
    /\ response' = r.response
    /\ UNCHANGED <<norm_dist, stats_calc, other, decimal_places, menu>>

\* A direct call of a library method.
Direct(method, args, o) ==
    [ call |-> CallOf("direct", method, args), outcome |-> o, response |-> NoResponse ]

CallMeanCI ==
    /\ Idle
    /\ \E m \in SampleMeans, n \in SampleSizes, c \in AnyLevels \ {None},
          p \in OptionalStds, s \in OptionalStds :
        Does(Direct("mean_confidence_interval",
                    [ sample_mean |-> m, sample_size |-> n, confidence_level |-> c,
                      population_std |-> p, sample_std |-> s ],
                    mean_confidence_interval(m, n, c, p, s)))

CallProportionCI ==
    /\ Idle
    /\ \E p \in AnyProportions, n \in SampleSizes, c \in AnyLevels \ {None} :
        Does(Direct("proportion_confidence_interval",
                    [ sample_proportion |-> p, sample_size |-> n, confidence_level |-> c ],
                    proportion_confidence_interval(p, n, c)))

CallSampleSizeForMean ==
    /\ Idle
    /\ \E e \in MarginErrors, c \in AnyLevels \ {None}, p \in Stds :
        Does(Direct("sample_size_for_mean",
                    [ margin_error |-> e, confidence_level |-> c, population_std |-> p ],
                    sample_size_for_mean(e, c, p)))

CallSampleSizeForProportion ==
    /\ Idle
    /\ \E e \in MarginErrors, c \in AnyLevels \ {None}, p \in Proportions \cup {None} :
        Does(Direct("sample_size_for_proportion",
                    [ margin_error |-> e, confidence_level |-> c,
                      estimated_proportion |-> p ],
                    sample_size_for_proportion(e, c, p)))

PostConfidenceIntervals ==
    /\ Idle
    /\ \E data \in CIBodies : Does(confidence_interval_calculations(data))

ConsoleConfidenceIntervals ==
    /\ Idle
    /\ \E choice \in {"1", "2", "3", "4", "9"} :
        \E typed \in CITyped(choice) :
            /\ CIPromptsAnswered(choice, typed)
            /\ Does(confidence_intervals_menu(choice, typed))

CallOneSampleMeanTest ==
    /\ Idle
    /\ \E a \in MeanTestArguments :
        Does(Direct("one_sample_mean_test", a,
                    one_sample_mean_test(a.sample_mean, a.sample_size, a.null_mean,
                                         a.alpha, a.test_type, a.population_std,
                                         a.sample_std)))

CallOneSampleProportionTest ==
    /\ Idle
    /\ \E p \in Proportions, n \in SampleSizes, p0 \in NullProportions,
          a \in AnyAlphas, l \in TailTypes :
        Does(Direct("one_sample_proportion_test",
                    [ sample_proportion |-> p, sample_size |-> n,
                      null_proportion |-> p0, alpha |-> a, test_type |-> l ],
                    one_sample_proportion_test(p, n, p0, a, l)))

CallTwoSampleMeanTest ==
    /\ Idle
    /\ \E m \in PairMeans, n1 \in PairSizes, s1 \in PairStds, n2 \in PairSizes,
          s2 \in PairStds, a \in AnyAlphas, l \in TailTypes, e \in BOOLEAN :
        Does(Direct("two_sample_mean_test",
                    [ sample1_mean |-> m, sample1_size |-> n1, sample1_std |-> s1,
                      sample2_mean |-> U(0), sample2_size |-> n2, sample2_std |-> s2,
                      alpha |-> a, test_type |-> l, equal_variances |-> e ],
                    two_sample_mean_test(m, n1, s1, U(0), n2, s2, a, l, e)))

CallTwoSampleProportionTest ==
    /\ Idle
    /\ \E s1 \in ProportionSamples, s2 \in ProportionSamples,
          a \in AnyAlphas, l \in TailTypes :
        Does(Direct("two_sample_proportion_test",
                    [ sample1_successes |-> s1[1], sample1_size |-> s1[2],
                      sample2_successes |-> s2[1], sample2_size |-> s2[2],
                      alpha |-> a, test_type |-> l ],
                    two_sample_proportion_test(s1[1], s1[2], s2[1], s2[2], a, l)))

PostHypothesisTesting ==
    /\ Idle
    /\ \E data \in HTBodies : Does(hypothesis_testing_calculations(data))

ConsoleHypothesisTesting ==
    /\ Idle
    /\ \E choice \in {"1", "2", "3", "4", "9"} :
        \E typed \in HTTyped(choice) :
            /\ HTPromptsAnswered(choice, typed)
            /\ Does(hypothesis_testing_menu(choice, typed))

NextCalc ==
    \/ CallMeanCI
    \/ CallProportionCI
    \/ CallSampleSizeForMean
    \/ CallSampleSizeForProportion
    \/ PostConfidenceIntervals
    \/ ConsoleConfidenceIntervals
    \/ CallOneSampleMeanTest
    \/ CallOneSampleProportionTest
    \/ CallTwoSampleMeanTest
    \/ CallTwoSampleProportionTest
    \/ PostHypothesisTesting
    \/ ConsoleHypothesisTesting
    \/ Return

Spec == Init /\ [][NextCalc]_vars

(***************************************************************************)
(* The two classes with state.  A library client holds at most one         *)
(* instance of each class (norm_dist, stats_calc) and shares it with a     *)
(* second caller: a call of the client begins, the second caller may run   *)
(* a call of its own on the shared instances, and the client's call        *)
(* finishes.  The web route and the console menu build an instance of      *)
(* their own for each request; they neither read nor write the client's    *)
(* instances, so they are explored from the states where it holds none.    *)
(***************************************************************************)
NormalMethods ==
    {"calculate_z_score", "calculate_probability", "calculate_probability_between",
     "find_percentile", "find_critical_values", "empirical_rule"}

StatsMethods == {"calculate_all_stats", "calculate_standard_error"}

NoClientInstance == norm_dist = NoInstance /\ stats_calc = NoInstance

NewNormalDistribution ==
    /\ Idle
    /\ \E mean \in DistMeans, std_dev \in DistStds :
        /\ norm_dist' = NormalDistribution(mean, std_dev)
        /\ call' = CallOf("direct", "__init__", [mean |-> mean, std_dev |-> std_dev])
        /\ outcome' = Returned(NormalDistribution(mean, std_dev))
        /\ UNCHANGED <<response, stats_calc, other, decimal_places, menu>>

NewDescriptiveStats ==
    /\ Idle
    /\ \E data \in ClientDatasets :
        /\ stats_calc' = DescriptiveStats(data)
        /\ call' = CallOf("direct", "__init__", [data |-> data])
        /\ outcome' = Returned(DescriptiveStats(data))
        /\ UNCHANGED <<response, norm_dist, other, decimal_places, menu>>

BeginNormalCall ==
    /\ Idle
    /\ norm_dist # NoInstance
    /\ \E c \in NormalCalls :
        /\ call' = CallOf("direct", c.method, OnInstance(norm_dist, c.args))
        /\ outcome' = Running
        /\ UNCHANGED <<response, norm_dist, stats_calc, other, decimal_places, menu>>

BeginStatsCall ==
    /\ Idle
    /\ stats_calc # NoInstance
    /\ \E c \in StatsCalls :
        /\ call' = CallOf("direct", c.method, OnInstance(stats_calc, c.args))
        /\ outcome' = Running
        /\ UNCHANGED <<response, norm_dist, stats_calc, other, decimal_places, menu>>

\* A whole call of the second caller on the shared NormalDistribution.
OtherNormalCall ==
    /\ outcome = Running
    /\ other = NoOther
    /\ norm_dist # NoInstance
    /\ \E c \in OtherNormalCalls :
        LET r == NormalMethod(norm_dist, c.method, c.args)
        IN  /\ other' = [method |-> c.method, args |-> c.args, outcome |-> r.outcome]
            /\ norm_dist' = r.self
            /\ UNCHANGED <<call, outcome, response, stats_calc, decimal_places, menu>>

\* A whole call of the second caller on the shared DescriptiveStats.
OtherStatsCall ==
    /\ outcome = Running
    /\ other = NoOther
    /\ stats_calc # NoInstance
    /\ \E c \in OtherStatsCalls :
        LET r == StatsMethod(stats_calc, c.method, c.args)
        IN  /\ other' = [method |-> c.method, args |-> c.args, outcome |-> r.outcome]
            /\ stats_calc' = r.self
            /\ UNCHANGED <<call, outcome, response, norm_dist, decimal_places, menu>>

FinishNormalCall ==
    /\ outcome = Running
    /\ call.method \in NormalMethods
    /\ LET r == NormalMethod(norm_dist, call.method, call.args)
       IN  /\ outcome' = r.outcome
           /\ norm_dist' = r.self
    /\ UNCHANGED <<call, response, stats_calc, other, decimal_places, menu>>

FinishStatsCall ==
    /\ outcome = Running
    /\ call.method \in StatsMethods
    /\ LET r == StatsMethod(stats_calc, call.method, call.args)
       IN  /\ outcome' = r.outcome
           /\ stats_calc' = r.self
    /\ UNCHANGED <<call, response, norm_dist, other, decimal_places, menu>>

PostNormalDistribution ==
    /\ Idle
    /\ NoClientInstance
    /\ \E data \in DistBodies : Does(normal_distribution_calculations(data))

ConsoleNormalDistribution ==
    /\ Idle
    /\ NoClientInstance
    /\ \E choice \in {"1", "2", "3", "4", "5", "6", "9"} :
        \E typed \in DistTyped(choice) :
            /\ NormalPromptsAnswered(choice, typed)
            /\ Does(normal_distribution_menu(choice, typed))

PostDescriptive ==
    /\ Idle
    /\ NoClientInstance
    /\ \E data \in StatsBodies : Does(calculate_descriptive_stats(data))

ConsoleDescriptive ==
    /\ Idle
    /\ NoClientInstance
    /\ \E typed \in StatsTyped :
        /\ StatsPromptsAnswered(typed)
        /\ Does(descriptive_statistics_menu(typed))

NextObjects ==
    \/ NewNormalDistribution
    \/ NewDescriptiveStats
    \/ BeginNormalCall
    \/ BeginStatsCall
    \/ OtherNormalCall
    \/ OtherStatsCall
    \/ FinishNormalCall
    \/ FinishStatsCall
    \/ Return
    \/ PostNormalDistribution
    \/ ConsoleNormalDistribution
    \/ PostDescriptive
    \/ ConsoleDescriptive

SpecObjects == Init /\ [][NextObjects]_vars

(***************************************************************************)
(* The four statistics routes of the web layer on their own: a request is  *)
(* handled, the client takes the answer.                                   *)
(***************************************************************************)
NextWeb ==
    \/ PostDescriptive
    \/ PostNormalDistribution
    \/ PostConfidenceIntervals
    \/ PostHypothesisTesting
    \/ Return

SpecWeb == Init /\ [][NextWeb]_vars

(***************************************************************************)
(* The console application (main.py): main_menu asks for a choice, runs    *)
(* the menu chosen and asks again.  One step is one pass of the loop.      *)
(***************************************************************************)
\* An entry of digits within the range, whatever it is.
AnyIntOk(entry, min_val, max_val) == IsNum(entry) /\ entry.v % 1000 = 0

\* Lines 59-60 of get_int_in_range: int(user_input) succeeds and
\* min_val <= value <= max_val.
IntInRangeOk(entry, min_val, max_val) ==
    /\ IsNum(entry)
    /\ entry.v % 1000 = 0
    /\ min_val * 1000 <= entry.v
    /\ entry.v <= max_val * 1000

\* get_int_in_range: the place of the first entry that is empty (None is
\* returned) or an integer in the range; 0 while the helper still prompts.
get_int_in_range(entries, min_val, max_val) ==
    FirstAccepted({i \in DOMAIN entries :
                      IsNone(entries[i]) \/ IntInRangeOk(entries[i], min_val, max_val)})

\* settings_menu: decimal_places after the user has answered the prompt
\* with new_decimals (None for an empty entry).
settings_menu(new_decimals) ==
    IF ~IsNone(new_decimals) THEN new_decimals.v \div 1000 ELSE decimal_places

\* What the user may type at the prompt of settings_menu: nothing (None),
\* a word, a fraction, integers in and out of the range.
SettingsEntries == {None, Text, F(2500), U(-1), U(0), U(10), U(11)}

\* The exception of a calculator leaves the menu that called it: none of
\* the menus of main.py has a try statement.
Propagates(o) == o.raised \notin {"none", "no call"}

\* main_menu is at its prompt.
AtMainMenu == Idle /\ menu.screen = "main_menu"

\* One of the choices '1' to '4': the menu runs and main_menu loops, or the
\* menu's exception ends main_menu.
Shows(choice, r) ==
    /\ call' = r.call
    /\ outcome' = r.outcome
    /\ response' = r.response
    /\ menu' = [ screen |-> IF Propagates(r.outcome) THEN "failed" ELSE "main_menu",
                 choice |-> choice,
                 new_decimals |-> None ]
    /\ UNCHANGED <<norm_dist, stats_calc, other, decimal_places>>

ChooseDescriptive ==
    /\ AtMainMenu
    /\ \E typed \in StatsTyped :
        /\ StatsPromptsAnswered(typed)
        /\ Shows("1", descriptive_statistics_menu(typed))

ChooseNormal ==
    /\ AtMainMenu
    /\ \E choice \in {"1", "2", "3", "4", "5", "6", "9"} :
        \E typed \in DistTyped(choice) :
            /\ NormalPromptsAnswered(choice, typed)
            /\ Shows("2", normal_distribution_menu(choice, typed))

ChooseConfidence ==
    /\ AtMainMenu
    /\ \E choice \in {"1", "2", "3", "4", "9"} :
        \E typed \in CITyped(choice) :
            /\ CIPromptsAnswered(choice, typed)
            /\ Shows("3", confidence_intervals_menu(choice, typed))

ChooseHypothesis ==
    /\ AtMainMenu
    /\ \E choice \in {"1", "2", "3", "4", "9"} :
        \E typed \in HTTyped(choice) :
            /\ HTPromptsAnswered(choice, typed)
            /\ Shows("4", hypothesis_testing_menu(choice, typed))

ChooseSettings ==
    /\ AtMainMenu
    /\ \E entries \in Typed(SettingsEntries) :
        /\ get_int_in_range(entries, 0, 10) # 0
        /\ LET new_decimals == Entry(entries, get_int_in_range(entries, 0, 10))
           IN  /\ decimal_places' = settings_menu(new_decimals)
               /\ menu' = [screen |-> "main_menu", choice |-> "5",
                           new_decimals |-> new_decimals]
    /\ UNCHANGED <<call, outcome, response, norm_dist, stats_calc, other>>

ChooseExit ==
    /\ AtMainMenu
    /\ menu' = [screen |-> "ended", choice |-> "6", new_decimals |-> None]
    /\ UNCHANGED <<call, outcome, response, norm_dist, stats_calc, other, decimal_places>>

\* Anything but '1' to '6': "Invalid choice", and the menu again.
InvalidChoice ==
    /\ AtMainMenu
    /\ \E choice \in {"", "0", "7", "exit"} :
        menu' = [screen |-> "main_menu", choice |-> choice, new_decimals |-> None]
    /\ UNCHANGED <<call, outcome, response, norm_dist, stats_calc, other, decimal_places>>

NextConsole ==
    \/ ChooseDescriptive
    \/ ChooseNormal
    \/ ChooseConfidence
    \/ ChooseHypothesis
    \/ ChooseSettings
    \/ ChooseExit
    \/ InvalidChoice
    \/ Return

SpecConsole == Init /\ [][NextConsole]_vars

(***************************************************************************)
(* Properties of the calculators and their front ends                      *)
(***************************************************************************)
\* The last call was of this method and returned a result.
ResultOf(method) == call.method = method /\ HasResult(outcome)

\* The call came through the web route or the console menu.
FromFrontEnd == call.path \in {"web", "console"}

InUnitInterval(a) == Between(F(0), a, One)

\* C1: every result of mean_confidence_interval for a positive sample size,
\* a positive standard deviation and a confidence level in (0, 1), on any
\* path (direct call, web route, console menu), has
\* lower_bound <= sample_mean <= upper_bound.
C1_IntervalBracketsMean ==
    ( /\ ResultOf("mean_confidence_interval")
      /\ call.args.sample_size > 0
      /\ InUnitInterval(call.args.confidence_level)
      /\ \/ FGt(call.args.population_std, F(0))
         \/ IsNone(call.args.population_std) /\ FGt(call.args.sample_std, F(0)) )
    => /\ FLe(outcome.result.lower_bound, call.args.sample_mean)
       /\ FLe(call.args.sample_mean, outcome.result.upper_bound)

\* C2: in every two-tailed test result whose alpha lies in (0, 1),
\* reject_null is true exactly when p_value < alpha.
TwoTailedResult ==
    /\ call.method \in {"one_sample_mean_test", "one_sample_proportion_test",
                        "two_sample_mean_test", "two_sample_proportion_test"}
    /\ HasResult(outcome)
    /\ outcome.result.test_type = "two-tailed"

BothStdsAbsent ==
    /\ call.method \in {"mean_confidence_interval", "one_sample_mean_test"}
    /\ IsNone(call.args.population_std)
    /\ IsNone(call.args.sample_std)

C4_MissingStdRaises ==
    BothStdsAbsent => outcome.raised = "ValueError" /\ outcome.result = NoResult

C4_RaisedOnMissingStd ==
    /\ BothStdsAbsent
    /\ call.method = "one_sample_mean_test"
    /\ outcome.raised = "ValueError"

\* C7: every standard deviation a front end passes to ConfidenceIntervals or
\* HypothesisTesting is > 0 and every sample size it passes is positive.
StdArguments ==
    {"population_std", "sample_std", "sample1_std", "sample2_std"}

SizeArguments == {"sample_size", "sample1_size", "sample2_size"}

C7_FrontEndsPassValidSizesAndStds ==
    (FromFrontEnd /\ call.method # "none")
    => /\ \A f \in StdArguments \cap DOMAIN call.args :
            IsNone(call.args[f]) \/ FGt(call.args[f], F(0))
       /\ \A f \in SizeArguments \cap DOMAIN call.args : call.args[f] > 0

\* C8: for sample_proportion in [0, 1], n > 0 and confidence_level in (0, 1),
\* the bounds of proportion_confidence_interval lie in [0, 1] and
\* lower_bound <= upper_bound.
ProportionIntervalInDomain ==
    /\ ResultOf("proportion_confidence_interval")
    /\ FLe(F(0), call.args.sample_proportion)
    /\ FLe(call.args.sample_proportion, F(1000))
    /\ call.args.sample_size > 0
    /\ InUnitInterval(call.args.confidence_level)

C8_ProportionBoundsInUnitInterval ==
    ProportionIntervalInDomain
    => /\ FLe(F(0), outcome.result.lower_bound)
       /\ FLe(outcome.result.lower_bound, outcome.result.upper_bound)
       /\ FLe(outcome.result.upper_bound, F(1000))

\* The margin reaches beyond 1 and beyond 0: both clamps have acted.
C8_MarginExceedsRange ==
    /\ ProportionIntervalInDomain
    /\ FGt(FAdd(call.args.sample_proportion, outcome.result.margin_of_error), F(1000))
    /\ FLt(FSub(call.args.sample_proportion, outcome.result.margin_of_error), F(0))

(***************************************************************************)
(* Claims about NormalDistribution and DescriptiveStats                    *)
(***************************************************************************)
\* C3: no NormalDistribution with std_dev <= 0 exists: the instance a client
\* holds, and every instance a method is called on, has std_dev > 0.
C3_StdDevPositive ==
    /\ norm_dist # NoInstance => FGt(norm_dist.std_dev, F(0))
    /\ call.method \in NormalMethods => FGt(call.args.self.std_dev, F(0))

\* C5: a finished find_percentile call with a percentile outside (0, 100),
\* and a finished find_critical_values call with a confidence level outside
\* (0, 1), has raised an error and returned no result.
C5_OutOfRangeFails ==
    /\ ( /\ call.method = "find_percentile"
         /\ outcome # Running
         /\ ~Between(F(0), call.args.percentile, F(100000)) )
       => ~HasResult(outcome)
    /\ ( /\ call.method = "find_critical_values"
         /\ outcome # Running
         /\ ~InUnitInterval(call.args.confidence_level) )
       => ~HasResult(outcome)

\* C6: every dataset the web route or the console menu hands to
\* DescriptiveStats has at least 2 elements, all of them numbers.
C6_FrontEndDatasetsHaveTwo ==
    (FromFrontEnd /\ call.method \in StatsMethods)
    => /\ Len(call.args.self.data) >= 2
       /\ \A i \in DOMAIN call.args.self.data : IsNum(call.args.self.data[i])

\* Python's == on two numbers kept as ratios in lowest terms: never true of
\* a NaN.
SameNumber(a, b) ==
    /\ a.k = "ratio"
    /\ b.k = "ratio"
    /\ a = b

\* C9: in every result of calculate_all_stats on n numbers, the sample
\* variance times (n - 1) equals the population variance times n.
C9_VariancesAgree ==
    ResultOf("calculate_all_stats")
    => LET dispersion == outcome.result.measures_of_dispersion
           n == call.args.self.n
       IN  SameNumber(RatioTimes(dispersion.sample_variance.value, n - 1),
                      RatioTimes(dispersion.population_variance.value, n))

\* The step constructs an instance.
Constructs == Idle /\ call'.method = "__init__"

\* What the call returns when nothing else runs: the method applied to the
\* instance as it was when the call began.
Alone(c) ==
    IF c.method \in NormalMethods
    THEN NormalMethod(c.args.self, c.method, c.args).outcome
    ELSE StatsMethod(c.args.self, c.method, c.args).outcome

\* C10: no step other than a construction changes an instance (mean and
\* std_dev of the NormalDistribution; data, n and sorted_data of the
\* DescriptiveStats), whatever the client and the second caller call and
\* however their calls interleave; and a call that finishes after the second
\* caller ran a call meanwhile returns what it returns when run alone.
C10_NoMutationNoSharing ==
    [][ /\ ~Constructs => (norm_dist' = norm_dist /\ stats_calc' = stats_calc)
        /\ (outcome = Running /\ outcome' # Running) => outcome' = Alone(call)
      ]_vars

\* A call of the client finished after the second caller ran a call of its
\* own on the same NormalDistribution, and one on the same DescriptiveStats
\* built from unsorted data.
C10_CallsInterleaved ==
    /\ call.path = "direct"
    /\ HasResult(outcome)
    /\ other # NoOther
    /\ HasResult(other.outcome)
    /\ \/ call.method \in NormalMethods /\ other.method \in NormalMethods
       \/ /\ call.method = "calculate_all_stats"
          /\ other.method = "calculate_all_stats"
          /\ call.args.self.data # call.args.self.sorted_data

(***************************************************************************)
(* Claims about the results of the calculators                             *)
(***************************************************************************)
\* A hypothesis test returned a result.
TestResult ==
    /\ call.method \in {"one_sample_mean_test", "one_sample_proportion_test",
                        "two_sample_mean_test", "two_sample_proportion_test"}
    /\ HasResult(outcome)

\* Of the two critical values of a two-tailed test, the one that is not
\* negative.
PositiveCritical(critical_values) ==
    IF FGe(critical_values[2], F(0)) THEN critical_values[2] ELSE critical_values[1]

\* C11: in every hypothesis test result the decision follows the tail type:
\* a two-tailed result has two critical values (-c, c) and rejects exactly
\* when |statistic| exceeds the positive one; a left-tailed result has one
\* critical value and rejects exactly when the statistic is below it; a
\* right-tailed result has one and rejects exactly when the statistic is
\* above it.
C11_DecisionFollowsTail ==
    TestResult
    => LET r == outcome.result
           cv == r.critical_values
       IN  IF r.test_type = "two-tailed"
           THEN /\ Len(cv) = 2
                /\ cv[1] = FNeg(cv[2])
                /\ r.reject_null
                   <=> FGt(FAbs(r.test_statistic), PositiveCritical(cv))
           ELSE IF r.test_type = "left-tailed"
           THEN /\ Len(cv) = 1
                /\ r.reject_null <=> FLt(r.test_statistic, cv[1])
           ELSE /\ Len(cv) = 1
                /\ r.reject_null <=> FGt(r.test_statistic, cv[1])

\* A left-tailed test whose statistic lies below its critical value.
C11_LeftTailRejects ==
    /\ TestResult
    /\ outcome.result.test_type = "left-tailed"
    /\ outcome.result.reject_null
    /\ IsNum(outcome.result.critical_values[1])

\* one_sample_mean_test returned a result for a known population_std.
ZTestResult ==
    /\ call.method = "one_sample_mean_test"
    /\ HasResult(outcome)
    /\ ~IsNone(call.args.population_std)

\* The z-test of the mean 105 against 100 with n = 36 and sigma = 15, at
\* alpha = 0.05, two-tailed.
ScenarioZTest ==
    /\ call.method = "one_sample_mean_test"
    /\ call.args.sample_mean = U(105)
    /\ call.args.sample_size = 36
    /\ call.args.null_mean = U(100)
    /\ call.args.population_std = U(15)
    /\ call.args.alpha = F(50000)
    /\ call.args.test_type = "two-tailed"

MeanResult ==
    /\ call.method \in {"mean_confidence_interval", "one_sample_mean_test"}
    /\ HasResult(outcome)

\* C13: every result of mean_confidence_interval and of one_sample_mean_test
\* is of the z-distribution, with standard error population_std / sqrt(n)
\* and no degrees of freedom, when population_std was supplied; and else of
\* the t-distribution with n - 1 degrees of freedom and standard error
\* sample_std / sqrt(n).
C13_DistributionFollowsStd ==
    MeanResult
    => LET a == call.args
           r == outcome.result
       IN  IF ~IsNone(a.population_std)
           THEN /\ r.distribution_type = "z"
                /\ IsNone(r.degrees_of_freedom)
                /\ r.standard_error = FDiv(a.population_std, SqrtInt(a.sample_size))
           ELSE /\ r.distribution_type = "t"
                /\ r.degrees_of_freedom = F((a.sample_size - 1) * 1000)
                /\ r.standard_error = FDiv(a.sample_std, SqrtInt(a.sample_size))

\* A result on the z branch although sample_std was supplied too, and the
\* critical value is the normal one, 1.96 at 95 %.
C13_ZWithBothStds ==
    /\ MeanResult
    /\ call.method = "mean_confidence_interval"
    /\ ~IsNone(call.args.population_std)
    /\ ~IsNone(call.args.sample_std)
    /\ call.args.confidence_level = F(950000)
    /\ outcome.result.critical_value = F(1960)

\* two_sample_mean_test was called and has finished.
TwoSampleMeanCall ==
    /\ call.method = "two_sample_mean_test"
    /\ outcome # Running

\* C14: a result of two_sample_mean_test with equal_variances has
\* n1 + n2 - 2 degrees of freedom and the pooled variance
\* ((n1-1)s1^2 + (n2-1)s2^2) / (n1+n2-2); with equal_variances false the
\* call never fails on an undefined variable and a result has
\* pooled_variance None.
C14_PooledVarianceFollowsFlag ==
    TwoSampleMeanCall
    => LET a == call.args
           n1 == a.sample1_size
           n2 == a.sample2_size
       IN  IF a.equal_variances
           THEN HasResult(outcome)
                => /\ outcome.result.degrees_of_freedom = F((n1 + n2 - 2) * 1000)
                   /\ outcome.result.pooled_variance
                        = FOver(FAdd(FTimes(n1 - 1, FMul(a.sample1_std, a.sample1_std)),
                                     FTimes(n2 - 1, FMul(a.sample2_std, a.sample2_std))),
                                n1 + n2 - 2)
           ELSE /\ outcome.raised \notin {"UnboundLocalError", "NameError"}
                /\ HasResult(outcome) => IsNone(outcome.result.pooled_variance)

\* Welch's test returned a result, with unequal standard deviations.
C14_WelchReturned ==
    /\ TwoSampleMeanCall
    /\ ~call.args.equal_variances
    /\ call.args.sample1_std # call.args.sample2_std
    /\ HasResult(outcome)
    /\ IsNone(outcome.result.pooled_variance)

\* proportion_confidence_interval was called with a proportion in [0, 1] and
\* a positive sample size, and has finished.
ProportionIntervalCall ==
    /\ call.method = "proportion_confidence_interval"
    /\ outcome # Running
    /\ FLe(F(0), call.args.sample_proportion)
    /\ FLe(call.args.sample_proportion, F(1000))
    /\ call.args.sample_size > 0

\* n * p_hat < 5 or n * (1 - p_hat) < 5, the proportion in thousandths.
SmallExpectedCount(sample_size, sample_proportion) ==
    \/ sample_size * sample_proportion.v < 5000
    \/ sample_size * (1000 - sample_proportion.v) < 5000

\* C15: proportion_confidence_interval returns its result whether or not the
\* normal-approximation check fails, and the result's warning is set exactly
\* when n * p_hat < 5 or n * (1 - p_hat) < 5, and is None when both are >= 5.
C15_WarningIsNotAnError ==
    ProportionIntervalCall
    => /\ HasResult(outcome)
       /\ {"lower_bound", "upper_bound", "margin_of_error", "warning"}
            \subseteq DOMAIN outcome.result
       /\ (outcome.result.warning # "None")
            <=> SmallExpectedCount(call.args.sample_size, call.args.sample_proportion)

\* A warned result that carries a proper interval around the proportion.
C15_WarnedInterval ==
    /\ ProportionIntervalCall
    /\ HasResult(outcome)
    /\ outcome.result.warning # "None"
    /\ call.args.sample_size * (1000 - call.args.sample_proportion.v) < 5000
    /\ call.args.sample_size * call.args.sample_proportion.v >= 5000
    /\ FLt(outcome.result.lower_bound, call.args.sample_proportion)

\* A result without a warning: both expected counts are at least 5.
UnwarnedInterval ==
    /\ ProportionIntervalCall
    /\ HasResult(outcome)
    /\ outcome.result.warning = "None"

\* one_sample_proportion_test was called and has finished.
ProportionTestCall ==
    /\ call.method = "one_sample_proportion_test"
    /\ outcome # Running

\* What the test gives for the same null proportion, sample size, alpha and
\* tail and another sample proportion.
WithSampleProportion(p) ==
    one_sample_proportion_test(p, call.args.sample_size, call.args.null_proportion, call.args.alpha, call.args.test_type)

\* C16: the standard error of one_sample_proportion_test is
\* sqrt(p0 (1 - p0) / n) and its warning is set iff n p0 < 5 or
\* n (1 - p0) < 5; with null_proportion, n, alpha and the tail fixed, any
\* other sample_proportion gives the same standard_error, warning and
\* critical_values.
C16_NullProportionOnly ==
    ProportionTestCall
    => LET a == call.args
       IN  /\ HasResult(outcome)
               => /\ outcome.result.standard_error
                       = FSqrt(FOver(FMul(a.null_proportion,
                                          FSub(F(1000), a.null_proportion)),
                                     a.sample_size))
                  /\ (outcome.result.warning # "None")
                       <=> SmallExpectedCount(a.sample_size, a.null_proportion)
           /\ \A p \in Proportions :
                LET o == WithSampleProportion(p)
                IN  /\ o.raised = outcome.raised
                    /\ HasResult(o)
                        => /\ o.result.standard_error = outcome.result.standard_error
                           /\ o.result.warning = outcome.result.warning
                           /\ o.result.critical_values
                                = outcome.result.critical_values

\* A result whose sample proportion has another variance than the null
\* proportion, and another sample proportion changes the statistic.
C16_SampleDiffersFromNull ==
    /\ ProportionTestCall
    /\ HasResult(outcome)
    /\ call.args.sample_proportion = F(100)
    /\ call.args.null_proportion = F(500)
    /\ \E p \in Proportions :
        /\ HasResult(WithSampleProportion(p))
        /\ WithSampleProportion(p).result.test_statistic
             # outcome.result.test_statistic

\* two_sample_proportion_test returned a result.
TwoProportionResult ==
    /\ call.method = "two_sample_proportion_test"
    /\ HasResult(outcome)

\* n * p < 5 or n * (1 - p) < 5 for one sample and the pooled proportion.
BelowFive(sample_size, p) ==
    \/ sample_size * p.v < 5000
    \/ sample_size * (1000 - p.v) < 5000

\* C17: a result of two_sample_proportion_test has the pooled proportion
\* (successes1 + successes2) / (n1 + n2), the standard error
\* sqrt(p (1 - p) (1/n1 + 1/n2)) of that proportion, and a warning exactly
\* when one of n1 p, n1 (1 - p), n2 p, n2 (1 - p) is below 5.
C17_PooledProportion ==
    TwoProportionResult
    => LET a == call.args
           r == outcome.result
           p == r.pooled_proportion
       IN  /\ p = F(((a.sample1_successes + a.sample2_successes) * 1000)
                      \div (a.sample1_size + a.sample2_size))
           /\ r.standard_error
                = FSqrt(FMul(FMul(p, FSub(F(1000), p)),
                             FAdd(FOver(F(1000), a.sample1_size),
                                  FOver(F(1000), a.sample2_size))))
           /\ (r.warning # "None")
                <=> (BelowFive(a.sample1_size, p) \/ BelowFive(a.sample2_size, p))

\* A result without a warning: all four expected counts reach 5, and the
\* two sample proportions differ.
C17_NoWarning ==
    /\ TwoProportionResult
    /\ outcome.result.warning = "None"
    /\ outcome.result.sample1_proportion # outcome.result.sample2_proportion

\* A warning owed to the second sample alone.
SecondSampleWarns ==
    /\ TwoProportionResult
    /\ outcome.result.warning # "None"
    /\ ~BelowFive(call.args.sample1_size, outcome.result.pooled_proportion)

(***************************************************************************)
(* Claims about the measures of DescriptiveStats and the sample sizes      *)
(***************************************************************************)
\* The dataset of the instance calculate_all_stats was called on.
Dataset == call.args.self.data

\* How often the value x occurs in the dataset.
Frequency(x) == Cardinality({i \in DOMAIN Dataset : Dataset[i] = x})

\* The greatest frequency of a value of the dataset.
MaxFrequency ==
    CHOOSE c \in 1..Len(Dataset) :
                    /\ \E i \in DOMAIN Dataset : Frequency(Dataset[i]) = c
                    /\ \A i \in DOMAIN Dataset : Frequency(Dataset[i]) <= c

\* The values of maximum frequency.
MostFrequent == {Dataset[i] : i \in {j \in DOMAIN Dataset : Frequency(Dataset[j]) = MaxFrequency}}

\* The mode calculate_all_stats reported.
ReportedMode == outcome.result.measures_of_central_tendency.mode.value

\* C18: the mode calculate_all_stats reports is None when no value occurs
\* more than once, and else every value of maximum frequency is reported.
C18_AllModesReported ==
    ResultOf("calculate_all_stats")
    => IF MaxFrequency > 1
       THEN \A x \in MostFrequent : ReportedMode = x
       ELSE IsNone(ReportedMode)

\* What the code does report: None when no value occurs more than once, and
\* else the smallest of the values of maximum frequency.
SmallestModeReported ==
    ResultOf("calculate_all_stats")
    => IF MaxFrequency > 1
       THEN /\ ReportedMode \in MostFrequent
            /\ \A x \in MostFrequent : FLe(ReportedMode, x)
       ELSE IsNone(ReportedMode)

\* Two values tie for the maximum frequency 2.
TiedModes ==
    /\ ResultOf("calculate_all_stats")
    /\ MaxFrequency > 1
    /\ Cardinality(MostFrequent) > 1

\* The sequence is the dataset in ascending order.
IsSortedDataset(sorted) ==
    /\ Len(sorted) = Len(Dataset)
    /\ \A i \in DOMAIN sorted : \A j \in DOMAIN sorted : i <= j => FLe(sorted[i], sorted[j])
    /\ \A i \in DOMAIN Dataset :
        Cardinality({j \in DOMAIN sorted : sorted[j] = Dataset[i]}) = Frequency(Dataset[i])

\* The p-th percentile (p = 25, 50, 75) of a sorted sequence by linear
\* interpolation: at position h = (n - 1) p / 100 from the first value, the
\* order statistic below h plus the fraction of h times the step up.
Interpolated(sorted, p) ==
    LET h == (Len(sorted) - 1) * p * 10
        low == h \div 1000 + 1
        high == IF low < Len(sorted) THEN low + 1 ELSE low
    IN  F(sorted[low].v + ((sorted[high].v - sorted[low].v) * (h % 1000)) \div 1000)

\* The middle value, or the average of the two middle values.
MiddleValue(sorted) ==
    LET n == Len(sorted)
    IN  IF n % 2 = 1 THEN sorted[(n + 1) \div 2]
        ELSE F((sorted[n \div 2].v + sorted[n \div 2 + 1].v) \div 2)

\* C19: in every result of calculate_all_stats the median is the middle
\* sorted value (n odd) or the average of the two middle sorted values
\* (n even); Q1, Q2, Q3 are the 25th, 50th and 75th percentiles by linear
\* interpolation between order statistics; Q2 equals the median;
\* IQR = Q3 - Q1; and the dataset 1, 2, ..., 10 has mean 5.5, median 5.5,
\* Q1 3.25, Q3 7.75 and IQR 4.5.
C19_MedianAndQuartiles ==
    ResultOf("calculate_all_stats")
    => LET r == outcome.result
           sorted == r.data_info.sorted_data
           median == r.measures_of_central_tendency.median.value
           position == r.measures_of_position
           five == r.five_number_summary
       IN  /\ IsSortedDataset(sorted)
           /\ median = MiddleValue(sorted)
           /\ position.q1.value = Interpolated(sorted, 25)
           /\ position.q2.value = Interpolated(sorted, 50)
           /\ position.q3.value = Interpolated(sorted, 75)
           /\ position.q2.value = median
           /\ five.median = median
           /\ five.q1 = position.q1.value
           /\ five.q3 = position.q3.value
           /\ five.iqr.value = F(position.q3.value.v - position.q1.value.v)
           /\ Dataset = [i \in 1..10 |-> U(i)]
               => /\ r.measures_of_central_tendency.mean.value = F(5500)
                  /\ median = F(5500)
                  /\ position.q1.value = F(3250)
                  /\ position.q3.value = F(7750)
                  /\ five.iqr.value = F(4500)

\* calculate_all_stats returned the measures of 1, 2, ..., 10.
C19_OneToTen ==
    /\ ResultOf("calculate_all_stats")
    /\ Dataset = [i \in 1..10 |-> U(i)]
    /\ outcome.result.five_number_summary.iqr.value = F(4500)

\* A result on a dataset given out of order, of even length.
UnsortedEven ==
    /\ ResultOf("calculate_all_stats")
    /\ Len(Dataset) % 2 = 0
    /\ ~IsSortedDataset(Dataset)

\* One of the two sample-size methods returned a result.
SampleSizeResult ==
    /\ call.method \in {"sample_size_for_mean", "sample_size_for_proportion"}
    /\ HasResult(outcome)

\* No estimate was supplied to sample_size_for_proportion.
NoEstimate ==
    /\ call.method = "sample_size_for_proportion"
    /\ IsNone(call.args.estimated_proportion)

\* C20: sample_size_required of sample_size_for_mean and of
\* sample_size_for_proportion is the smallest integer not below
\* sample_size_exact; without an estimate sample_size_for_proportion
\* computes with p = 0.5; margin_error 0.03 at confidence level 0.95 without
\* an estimate requires 1068.
C20_RequiredIsCeiling ==
    SampleSizeResult
    => LET a == call.args
           r == outcome.result
       IN  /\ r.sample_size_required * 1000 >= r.sample_size_exact.v
           /\ (r.sample_size_required - 1) * 1000 < r.sample_size_exact.v
           /\ NoEstimate
               => /\ r.estimated_proportion = F(500)
                  /\ r.conservative_estimate
                  /\ r.sample_size_exact
                       = sample_size_for_proportion(a.margin_error, a.confidence_level, F(500)).result.sample_size_exact
           /\ (NoEstimate /\ a.margin_error = F(30) /\ a.confidence_level = F(950000))
               => r.sample_size_required = 1068

\* The scenario: 1068 required, above an exact size that is no integer.
C20_ScenarioRequires1068 ==
    /\ SampleSizeResult
    /\ NoEstimate
    /\ call.args.margin_error = F(30)
    /\ call.args.confidence_level = F(950000)
    /\ outcome.result.sample_size_required = 1068
    /\ outcome.result.sample_size_exact.v % 1000 # 0

\* sample_size_for_mean rounded an exact size up.
MeanSizeRoundedUp ==
    /\ ResultOf("sample_size_for_mean")
    /\ outcome.result.sample_size_exact.v % 1000 # 0

(***************************************************************************)
(* Claims about the methods of NormalDistribution                          *)
(***************************************************************************)
\* The instance the finished call ran on.
Distribution == call.args.self

\* C21: for std_dev > 0 the intervals of empirical_rule nest around the
\* mean, three_std.lower <= two_std.lower <= one_std.lower <= mean <=
\* one_std.upper <= two_std.upper <= three_std.upper, and carry the
\* percentages 68, 95 and 99.7.
C21_IntervalsNest ==
    (ResultOf("empirical_rule") /\ FGt(Distribution.std_dev, F(0)))
    => LET r == outcome.result
       IN  /\ FLe(r.three_std.lower, r.two_std.lower)
           /\ FLe(r.two_std.lower, r.one_std.lower)
           /\ FLe(r.one_std.lower, Distribution.mean)
           /\ FLe(Distribution.mean, r.one_std.upper)
           /\ FLe(r.one_std.upper, r.two_std.upper)
           /\ FLe(r.two_std.upper, r.three_std.upper)
           /\ r.one_std.percentage = F(68000)
           /\ r.two_std.percentage = F(95000)
           /\ r.three_std.percentage = F(99700)

\* The rule of a distribution with mean 10 and std_dev 2: 8..12 within
\* 4..16.
C21_RuleOfTenAndTwo ==
    /\ ResultOf("empirical_rule")
    /\ Distribution.mean = U(10)
    /\ Distribution.std_dev = U(2)
    /\ outcome.result.one_std.lower = U(8)
    /\ outcome.result.three_std.upper = U(16)

\* The instance is the standard normal distribution.
StandardNormal == Distribution.mean = U(0) /\ Distribution.std_dev = U(1)

\* C22: the z_score calculate_z_score returns is (x - mean) / std_dev, and
\* for NormalDistribution(0, 1) mean + z * std_dev is x again.
C22_ZScoreRoundTrip ==
    ResultOf("calculate_z_score")
    => LET x == call.args.x_value
           z == outcome.result.z_score
       IN  /\ z = F(Trunc((x.v - Distribution.mean.v) * 1000, Distribution.std_dev.v))
           /\ StandardNormal
               => FAdd(Distribution.mean, FMul(z, Distribution.std_dev)) = x

\* The z-score of 12 under the standard normal distribution is 12.
C22_StandardScore ==
    /\ ResultOf("calculate_z_score")
    /\ StandardNormal
    /\ call.args.x_value = U(12)
    /\ outcome.result.z_score = U(12)

\* What calculate_probability_between returns for the two bounds in the
\* other order.
BoundsExchanged ==
    calculate_probability_between(Distribution, call.args.x2, call.args.x1).outcome

\* The two orders of the bounds give the same probability and z_scores.
SameEitherWay ==
    /\ HasResult(BoundsExchanged)
    /\ BoundsExchanged.result.probability = outcome.result.probability
    /\ BoundsExchanged.result.z_scores = outcome.result.z_scores

\* The z_scores are in ascending order and the probability is not negative.
OrderedAndNonNegative ==
    /\ FLe(outcome.result.z_scores[1], outcome.result.z_scores[2])
    /\ FGe(outcome.result.probability, F(0))

ProbabilityFor(comparison) ==
    calculate_probability(Distribution, call.args.x_value, comparison).outcome.result.probability

\* C24: calculate_probability returns a result for each of less_than,
\* greater_than and equal_to; for equal_to the probability is the one for
\* less_than on the same x, the CDF value, and for greater_than it is 1
\* minus that value.
C24_ComparisonSelectsTail ==
    ( /\ call.method = "calculate_probability"
      /\ outcome # Running
      /\ ~IsZero(Distribution.std_dev) )
    => /\ call.args.comparison \in {"less_than", "greater_than", "equal_to"}
           => HasResult(outcome)
       /\ HasResult(outcome)
           => LET p == outcome.result.probability
                  cdf == norm_cdf(F(Trunc((call.args.x_value.v - Distribution.mean.v) * 1000,
                                          Distribution.std_dev.v)))
              IN  /\ call.args.comparison = "less_than" => p = cdf
                  /\ call.args.comparison = "equal_to"
                      => p = cdf /\ p = ProbabilityFor("less_than")
                  /\ call.args.comparison = "greater_than"
                      => /\ p = F(1000000 - cdf.v)
                         /\ p = F(1000000 - ProbabilityFor("less_than").v)

\* An upper tail below one half: x above the mean, greater_than.
C24_UpperTail ==
    /\ ResultOf("calculate_probability")
    /\ call.args.comparison = "greater_than"
    /\ FGt(call.args.x_value, Distribution.mean)
    /\ FGt(Distribution.std_dev, F(0))
    /\ FLt(outcome.result.probability, F(500000))

\* equal_to returned a probability other than 0 and 1.
EqualToReturned ==
    /\ ResultOf("calculate_probability")
    /\ call.args.comparison = "equal_to"
    /\ FGt(outcome.result.probability, F(0))
    /\ FLt(outcome.result.probability, One)

\* The label of a band: k = 1, 2, 3 standard deviations, 4 for beyond.
BandLabel(k) ==
    IF k = 1 THEN "Within 1 standard deviation of the mean (common)"
    ELSE IF k = 2 THEN "Within 2 standard deviations of the mean (fairly common)"
    ELSE IF k = 3 THEN "Within 3 standard deviations of the mean (uncommon)"
    ELSE "More than 3 standard deviations from the mean (very rare)"

\* The result for the value as far from the mean on its other side.
Mirrored ==
    calculate_z_score(Distribution, F(2 * Distribution.mean.v - call.args.x_value.v)).outcome.result

\* C25: the interpretation of calculate_z_score is the band of |z|, common
\* for |z| < 1, fairly common for 1 <= |z| < 2, uncommon for 2 <= |z| < 3,
\* very rare for |z| >= 3: exactly one of the four, and the same for z and
\* -z.
C25_BandOfAbsoluteZ ==
    ResultOf("calculate_z_score")
    => LET z == outcome.result.z_score.v
           size == IF z < 0 THEN -z ELSE z
           label == outcome.result.interpretation
       IN  /\ size < 1000 <=> label = BandLabel(1)
           /\ (1000 <= size /\ size < 2000) <=> label = BandLabel(2)
           /\ (2000 <= size /\ size < 3000) <=> label = BandLabel(3)
           /\ size >= 3000 <=> label = BandLabel(4)
           /\ Cardinality({k \in 1..4 : label = BandLabel(k)}) = 1
           /\ Mirrored.z_score.v = -z
           /\ Mirrored.interpretation = label

\* A z-score of -2, two standard deviations below the mean: uncommon.
C25_TwoBelow ==
    /\ ResultOf("calculate_z_score")
    /\ outcome.result.z_score = U(-2)
    /\ outcome.result.interpretation = BandLabel(3)

\* Each of the four bands is the label of some result.
BandReached(k) == ResultOf("calculate_z_score") /\ outcome.result.interpretation = BandLabel(k)

CommonReached == BandReached(1)

FairlyCommonReached == BandReached(2)

VeryRareReached == BandReached(4)

(***************************************************************************)
(* Claims about the web routes and the console application                 *)
(***************************************************************************)
\* A web route answered with the rounded result of its calculator.
Rounded ==
    /\ call.path = "web"
    /\ HasResult(outcome)
    /\ response.status = 200

\* The frame of apply_rounding: the keys of the result and rounded_display
\* are the keys of the answer, the values of the text keys are the result's,
\* and None stays None.
RoundingKeepsKeysAndText ==
    Rounded
    => LET data == outcome.result
           rounded == response.results
       IN  /\ DOMAIN rounded = DOMAIN data \cup {"rounded_display"}
           /\ DOMAIN rounded.rounded_display = DOMAIN data
           /\ \A key \in DOMAIN data \cap TextKeys :
               /\ rounded[key] = data[key]
               /\ rounded.rounded_display[key] = data[key]
           /\ \A key \in DOMAIN data \cap (FloatFields \cup ProbabilityFields) :
               IsNone(data[key]) => IsNone(rounded[key])

\* C26: apply_rounding keeps every key of the result, adds only
\* rounded_display, returns the values of the text keys unchanged, and
\* leaves every leaf that is no number as it is: a bool of the result is a
\* bool, not an int, in the answer.
C26_RoundingKeepsNonNumbers ==
    /\ RoundingKeepsKeysAndText
    /\ Rounded
        => \A key \in DOMAIN outcome.result \cap BoolFields :
            response.results[key] \notin Int

\* An answer that carries a warning text and a decision.
WarningAndDecisionRounded ==
    /\ Rounded
    /\ "reject_null" \in DOMAIN outcome.result
    /\ "warning" \in DOMAIN outcome.result
    /\ outcome.result.warning # "None"
    /\ outcome.result.reject_null

\* A 400 of a validation check: no calculator method was called.
RejectedByValidation ==
    /\ response.status = 400
    /\ response.error # "None"
    /\ response.results = NoResult
    /\ call = NoCall
    /\ outcome = NoOutcome

\* A 500 with the message of the exception a calculator raised.
ExceptionAnswered ==
    /\ response.status = 500
    /\ ~HasResult(outcome)
    /\ outcome.raised \notin {"no call", "running"}
    /\ response.error = outcome.raised
    /\ response.results = NoResult

\* A success with the rounded result of the calculator.
Succeeded ==
    /\ response.status = 200
    /\ response.error = "None"
    /\ HasResult(outcome)
    /\ response.results # NoResult

\* C27: every request to one of the four statistics routes is answered, and
\* the answer is exactly one of: a 400 of a validation check, no calculator
\* method having been called; a 500 with the message of the exception
\* raised; a success.  No exception leaves the handler.
C27_ThreeOutcomes ==
    /\ [](response # NoResponse
            => /\ RejectedByValidation \/ ExceptionAnswered \/ Succeeded
               /\ response.status \in {200, 400, 500})
    /\ [][Idle => response' # NoResponse]_vars

\* A route answered 500 because its calculator divided by zero.
C27_DivisionAnswered ==
    /\ ExceptionAnswered
    /\ call.path = "web"
    /\ response.error = "ZeroDivisionError"

\* A request rejected by validation.
RequestRejected == RejectedByValidation

\* A request that succeeded.
RequestSucceeded == Succeeded /\ call.path = "web"

\* A calculator raised an exception under a console menu.
ConsoleCallRaised ==
    /\ call.path = "console"
    /\ outcome # Running
    /\ ~HasResult(outcome)

\* The state is one the console application can be in.
ConsoleTypeOK ==
    /\ decimal_places \in Int
    /\ menu.screen \in {"main_menu", "ended", "failed"}

(***************************************************************************)
(* The console application.                                                *)
(***************************************************************************)
\* The step is one of settings_menu, with its prompt answered.
SettingsAnswered == menu'.choice = "5" /\ menu'.screen = "main_menu" /\ menu.screen = "main_menu"

\* C28: decimal_places of the console application is always an integer of
\* 0..10: it is 4 when the application starts, only a step of settings_menu
\* changes it, and only to the integer entered; a step of settings_menu
\* whose prompt was answered with an empty entry leaves it as it was.
C28_DecimalPlacesInRange ==
    /\ decimal_places = 4
    /\ [](decimal_places \in 0..10)
    /\ [][decimal_places' # decimal_places
            => /\ SettingsAnswered
               /\ IsNum(menu'.new_decimals)
               /\ decimal_places' * 1000 = menu'.new_decimals.v]_vars
    /\ [][SettingsAnswered /\ IsNone(menu'.new_decimals)
            => decimal_places' = decimal_places]_vars

\* settings_menu has set decimal_places to 10, and later an empty entry
\* has left it there.
C28_TenKeptByEmptyEntry ==
    /\ decimal_places = 10
    /\ menu.choice = "5"
    /\ IsNone(menu.new_decimals)

\* C29: main_menu is left only by choice '6': whatever else is entered, the
\* main menu comes back, and once it is left no menu is shown again.
C29_OnlySixEnds ==
    /\ [](menu.screen # "main_menu" => menu.screen = "ended" /\ menu.choice = "6")
    /\ [][menu.screen # "main_menu" => menu' = menu]_vars

(***************************************************************************)
(* The conservative sample size.                                           *)
(***************************************************************************)
\* sample_size_required for the proportion p, at the margin of error and
\* the confidence level of the call; -1 where the call would raise.
RequiredFor(p) ==
    LET o == sample_size_for_proportion(call.args.margin_error, call.args.confidence_level, p)
    IN  IF HasResult(o) THEN o.result.sample_size_required ELSE -1

\* The estimate of the call is a proportion of [0, 1].
EstimateInUnitInterval ==
    /\ IsNum(call.args.estimated_proportion)
    /\ call.args.estimated_proportion.v \in 0..1000

\* C30: at one margin_error and one confidence_level, the
\* sample_size_required that sample_size_for_proportion returns without an
\* estimate (p = 0.5) is at least the one it returns for any estimate in
\* [0, 1], and the one it returns for an estimate p in [0, 1] is the one it
\* returns for 1 - p.
C30_ConservativeAndSymmetric ==
    ResultOf("sample_size_for_proportion")
    => LET r == outcome.result
       IN  /\ NoEstimate
               => /\ r.sample_size_required = RequiredFor(F(500))
                  /\ \A p \in Proportions : r.sample_size_required >= RequiredFor(p)
           /\ EstimateInUnitInterval
               => /\ RequiredFor(None) >= r.sample_size_required
                  /\ r.sample_size_required
                       = RequiredFor(FSub(F(1000), call.args.estimated_proportion))

\* An estimate of 0.1 was given: fewer are required than without an
\* estimate, and as many as for 0.9.
C30_EstimateRequiresFewer ==
    /\ ResultOf("sample_size_for_proportion")
    /\ call.args.estimated_proportion = F(100)
    /\ outcome.result.sample_size_required > 0
    /\ outcome.result.sample_size_required < RequiredFor(None)
    /\ outcome.result.sample_size_required = RequiredFor(F(900))

\* Without an estimate, strictly more are required than for 0.1 and 0.9.
C30_NoEstimateRequiresMost ==
    /\ ResultOf("sample_size_for_proportion")
    /\ NoEstimate
    /\ outcome.result.sample_size_required > RequiredFor(F(100))
    /\ RequiredFor(F(100)) > 0
====
